---- MODULE Spec2Model ----
(***************************************************************************)
(* Model of the win-light file-search core: the SQLite-backed store        *)
(* (src-tauri/src/db.rs), the indexer (src-tauri/src/indexer.rs) and the   *)
(* two-phase searcher (src-tauri/src/searcher.rs).                         *)
(*                                                                         *)
(* Strings are sequences of one-character strings, so that lower-casing,   *)
(* LIKE matching and substring search are computed, not assumed.           *)
(***************************************************************************)
EXTENDS Integers, Sequences, FiniteSets, TLC

VARIABLES
    files,      \* the rows of table `files`, in rowid order
    nextId,     \* next AUTOINCREMENT id
    last,       \* the last call: its name, arguments and result
    everClicks, \* per filepath, the largest click_count a row of it ever held
    idx,        \* the indexing pass in flight, if any
    srch,       \* the search call in flight, or the last one and its result
    pure,       \* the last call of a function without a store: its name,
                \* arguments and value
    host,       \* the host (lib.rs): the indexing flag and its tasks
    conn        \* Database.conn: the threads inside the mutex, and the
                \* rows to go back to if the open transaction is dropped

vars == <<files, nextId, last, everClicks, idx, srch, pure, host, conn>>

----------------------------------------------------------------------------
(* Bounds of the model *)

MaxId == 2
MaxNow == 1
MaxClicks == 1
MaxBatch == 2
\* invocations of the rebuild_index command
MaxCalls == 2

----------------------------------------------------------------------------
(* The universe of file names and paths *)

BS == "\\"

\* <filename, filepath, extension, file_size, modified_at, file_type>,
\* the tuple of upsert_file and upsert_files_batch
Entry(fname, fpath, ext, size, mtime, ftype) ==
    [filename |-> fname, filepath |-> fpath, extension |-> ext,
     file_size |-> size, modified_at |-> mtime, file_type |-> ftype]

P_ab == <<"d", BS, "a", "b">>
P_Abb == <<"d", BS, "A", "b", "b">>

\* what a walk yields for the files d\ab and d\Abb
E_ab == Entry(<<"a", "b">>, P_ab, <<>>, 1, 1, "other")
E_Abb == Entry(<<"A", "b", "b">>, P_Abb, <<>>, 1, 1, "other")
\* a caller of the storage API may pass any filename, extension and type
E_ab_api == Entry(<<"A", "B", ".", "a">>, P_ab, <<"a">>, 2, 2, "app")

DiskEntries == {E_ab, E_Abb}
Entries == DiskEntries \cup {E_ab_api}
Paths == {e.filepath : e \in Entries}

\* the states of the file system: the entries a walk would yield
DiskStates == SUBSET DiskEntries

\* the values of chrono::Utc::now().timestamp(), in hours
Times == 1..MaxNow

----------------------------------------------------------------------------
(* Table `files` (db.rs, create_tables) *)

Range(s) == {s[i] : i \in 1..Len(s)}

HasPath(fs, p) == \E i \in 1..Len(fs) : fs[i].filepath = p

RowOf(fs, p) == fs[CHOOSE i \in 1..Len(fs) : fs[i].filepath = p]

RECURSIVE SelectSeqBy(_, _)
\* the rows of fs whose filepath is not in gone, in order
SelectSeqBy(fs, gone) ==
    IF fs = <<>> THEN <<>>
    ELSE IF Head(fs).filepath \in gone THEN SelectSeqBy(Tail(fs), gone)
    ELSE <<Head(fs)>> \o SelectSeqBy(Tail(fs), gone)

\* A new row: id from AUTOINCREMENT, click_count and last_accessed from
\* their column defaults.
NewRow(id, e) ==
    [id |-> id, filename |-> e.filename, filepath |-> e.filepath,
     extension |-> e.extension, file_size |-> e.file_size,
     modified_at |-> e.modified_at, file_type |-> e.file_type,
     click_count |-> 0, last_accessed |-> 0]

\* mutant: the conflict branch replaces the row (INSERT OR REPLACE)
upsert_stmt_replaces(st, e) ==
    IF HasPath(st.files, e.filepath)
    THEN [files |-> [i \in 1..Len(st.files) |->
                        IF st.files[i].filepath = e.filepath
                        THEN NewRow(st.files[i].id, e)
                        ELSE st.files[i]],
          nextId |-> st.nextId]
    ELSE [files |-> Append(st.files, NewRow(st.nextId, e)),
          nextId |-> st.nextId + 1]

\* mutant: ON CONFLICT(filepath) DO NOTHING
upsert_stmt_ignores(st, e) ==
    IF HasPath(st.files, e.filepath) THEN st
    ELSE [files |-> Append(st.files, NewRow(st.nextId, e)),
          nextId |-> st.nextId + 1]

\* mutant: no UNIQUE(filepath), every statement inserts
upsert_stmt_always_inserts(st, e) ==
    [files |-> Append(st.files, NewRow(st.nextId, e)),
     nextId |-> st.nextId + 1]

\* INSERT INTO files (...) VALUES (...) ON CONFLICT(filepath) DO UPDATE SET
\* filename, file_size, modified_at, file_type
upsert_stmt(st, e) ==
    IF HasPath(st.files, e.filepath)
    THEN [files |-> [i \in 1..Len(st.files) |->
                        IF st.files[i].filepath = e.filepath
                        THEN [st.files[i] EXCEPT
                                 !.filename = e.filename,
                                 !.file_size = e.file_size,
                                 !.modified_at = e.modified_at,
                                 !.file_type = e.file_type]
                        ELSE st.files[i]],
          nextId |-> st.nextId]
    ELSE [files |-> Append(st.files, NewRow(st.nextId, e)),
          nextId |-> st.nextId + 1]

\* upsert_file: one statement in autocommit mode; fail is a storage error
upsert_file(st, e, fail) ==
    IF fail THEN [st |-> st, ok |-> FALSE]
    ELSE [st |-> upsert_stmt(st, e), ok |-> TRUE]

RECURSIVE ExecuteAll(_, _)
\* the for loop of upsert_files_batch, inside the transaction: the
\* statements of the first half of entries are executed, then those of the
\* second half (the test on nextId makes the evaluation follow that order)
ExecuteAll(st, entries) ==
    IF entries = <<>> THEN st
    ELSE IF Len(entries) = 1 THEN upsert_stmt(st, entries[1])
    ELSE LET half == Len(entries) \div 2
             first == ExecuteAll(st, SubSeq(entries, 1, half))
         IN IF first.nextId >= st.nextId
            THEN ExecuteAll(first, SubSeq(entries, half + 1, Len(entries)))
            ELSE first

NoFault == -1

\* the places where upsert_files_batch can fail: 0 is conn.transaction() or
\* prepare_cached, i in 1..n is the i-th stmt.execute, n+1 is tx.commit()
BatchFaults(entries) == {NoFault} \cup (0 .. Len(entries) + 1)

\* the statements that have run inside the transaction when it ends
Executed(entries, fault) ==
    IF fault = NoFault \/ fault = Len(entries) + 1 THEN entries
    ELSE IF fault = 0 THEN <<>>
    ELSE SubSeq(entries, 1, fault - 1)

\* mutant: the statements run in autocommit mode, an error keeps what ran
upsert_files_batch_no_tx(st, entries, fault) ==
    [st |-> ExecuteAll(st, Executed(entries, fault)), ok |-> fault = NoFault]

\* upsert_files_batch: `?` drops tx on an error, and a dropped rusqlite
\* Transaction rolls back
upsert_files_batch(st, entries, fault) ==
    IF fault = NoFault
    THEN [st |-> ExecuteAll(st, entries), ok |-> TRUE]
    ELSE [st |-> st, ok |-> FALSE]

\* mutant: the UPDATE has no WHERE clause
record_click_all_rows(fs, filepath, t, fail) ==
    IF fail THEN [files |-> fs, ok |-> FALSE]
    ELSE [files |-> [i \in 1..Len(fs) |->
                        [fs[i] EXCEPT !.click_count = @ + 1,
                                      !.last_accessed = t]],
          ok |-> TRUE]

\* record_click: UPDATE files SET click_count = click_count + 1,
\* last_accessed = now WHERE filepath = ?
record_click(fs, filepath, t, fail) ==
    IF fail THEN [files |-> fs, ok |-> FALSE]
    ELSE [files |-> [i \in 1..Len(fs) |->
                        IF fs[i].filepath = filepath
                        THEN [fs[i] EXCEPT !.click_count = @ + 1,
                                           !.last_accessed = t]
                        ELSE fs[i]],
          ok |-> TRUE]

\* Path::new(path).exists()
Exists(d, p) == \E e \in d : e.filepath = p

\* remove_missing_files.  nread rows are read before the SELECT fails, and
\* filter_map(|r| r.ok()) drops the error; the paths read and not on disk
\* are deleted one by one, and the fault-th DELETE (if any) fails with `?`.
remove_missing_files(fs, d, nread, fault) ==
    LET paths == [i \in 1..nread |-> fs[i].filepath]
        missing == SelectSeq(paths, LAMBDA p : ~Exists(d, p))
        done == IF fault = NoFault THEN Len(missing) ELSE fault - 1
        gone == {missing[i] : i \in 1..done}
    IN [files |-> SelectSeqBy(fs, gone),
        ok |-> fault = NoFault,
        removed |-> done]

----------------------------------------------------------------------------
(* The storage calls as actions.  The file system and the wall clock are    *)
(* the environment: each call finds them in any state.                      *)

Max(a, b) == IF a >= b THEN a ELSE b

ClicksOf(fs, p) == IF HasPath(fs, p) THEN RowOf(fs, p).click_count ELSE 0

\* history: the largest click_count each filepath ever had
Remember(fs) == [p \in Paths |-> Max(everClicks[p], ClicksOf(fs, p))]

\* the record of a call: path is its filepath argument, applied the
\* entries it committed, disk the file-system state it found
Call(op, path, applied, d, ok, ret) ==
    [op |-> op, path |-> path, applied |-> applied, disk |-> d,
     ok |-> ok, ret |-> ret]

Store == [files |-> files, nextId |-> nextId]

\* the batches: up to MaxBatch different entries, in any order; E_ab and
\* E_ab_api give one filepath twice in a batch
Batches ==
    UNION {{b \in [1..n -> Entries] : \A i, j \in 1..n : b[i] = b[j] => i = j} :
           n \in 0..MaxBatch}

\* a search call (pc is "done" when it has returned): rows is what
\* search_files returned, scored the list
\* scored_results, seen the set seen_ids, p2 the ids scored by the fuzzy
\* scan, found the length of scored_results before truncate, ops the calls
\* of other threads since search_files returned
Search(pc, op, q, limit, ok, rows, scored, seen, p2, found, result) ==
    [pc |-> pc, op |-> op, query |-> q, limit |-> limit, ok |-> ok,
     rows |-> rows, scored |-> scored, seen |-> seen, p2 |-> p2,
     found |-> found, result |-> result, ops |-> 0, reads |-> 0]

NoSearch == Search("idle", "none", <<>>, 0, TRUE, <<>>, <<>>, {}, <<>>, 0, <<>>)

\* no function has been called
NoCall == [op |-> "none"]

\* Mutex::new(conn): no thread holds the lock, no transaction is open
Unlocked ==
    [holders |-> {}, tx |-> FALSE, undo |-> [files |-> <<>>, nextId |-> 1]]

\* the tasks of the host that start an indexing pass: the start-up index,
\* the rebuild_index command, the tray action, the background indexer
HostPaths == {"initial", "rebuild", "tray", "background"}

\* run(): AppState { indexing: AtomicBool::new(false) }, no task started
HostStart ==
    [indexing |-> FALSE, pc |-> [h \in HostPaths |-> "idle"],
     result |-> [h \in HostPaths |-> "none"], calls |-> 0]

Init ==
    /\ files = <<>>
    /\ nextId = 1
    /\ last = Call("open", <<>>, <<>>, {}, TRUE, 0)
    /\ everClicks = [p \in Paths |-> 0]
    /\ idx = [pc |-> "idle", kind |-> "none"]
    /\ srch = NoSearch
    /\ pure = NoCall
    /\ host = HostStart
    /\ conn = Unlocked

UpsertFile ==
    \E e \in Entries, fail \in BOOLEAN :
        LET r == upsert_file(Store, e, fail) IN
        /\ r.st.nextId <= MaxId + 1
        /\ files' = r.st.files
        /\ nextId' = r.st.nextId
        /\ last' = Call("upsert_file", e.filepath,
                        IF r.ok THEN <<e>> ELSE <<>>, {}, r.ok, 0)
        /\ everClicks' = Remember(r.st.files)
        /\ UNCHANGED <<idx, srch, pure, host, conn>>

\* last.ret: the statements that had run when the call ended
UpsertFilesBatch ==
    \E entries \in Batches : \E fault \in BatchFaults(entries) :
        LET r == upsert_files_batch(Store, entries, fault) IN
        /\ ExecuteAll(Store, entries).nextId <= MaxId + 1
        /\ files' = r.st.files
        /\ nextId' = r.st.nextId
        /\ last' = Call("upsert_files_batch", <<>>,
                        IF r.ok THEN entries ELSE <<>>, {}, r.ok,
                        Len(Executed(entries, fault)))
        /\ everClicks' = Remember(r.st.files)
        /\ UNCHANGED <<idx, srch, pure, host, conn>>

\* last.ret: the time of the click
RecordClick ==
    \E p \in Paths, t \in Times, fail \in BOOLEAN :
        LET r == record_click(files, p, t, fail) IN
        /\ ClicksOf(files, p) < MaxClicks
        /\ files' = r.files
        /\ last' = Call("record_click", p, <<>>, {}, r.ok, t)
        /\ everClicks' = Remember(r.files)
        /\ UNCHANGED <<nextId, idx, srch, pure, host, conn>>

\* the DELETEs remove_missing_files would issue with nread rows read
Missing(fs, d, nread) ==
    SelectSeq([i \in 1..nread |-> fs[i].filepath], LAMBDA p : ~Exists(d, p))

RemoveFaults(fs, d, nread) == {NoFault} \cup (1 .. Len(Missing(fs, d, nread)))

\* last.ret: the count returned
RemoveMissingFiles ==
    \E d \in DiskStates : \E nread \in 0..Len(files) :
    \E fault \in RemoveFaults(files, d, nread) :
        LET r == remove_missing_files(files, d, nread, fault) IN
        /\ idx.pc = "idle"
        /\ files' = r.files
        /\ last' = Call("remove_missing_files", <<>>, <<>>, d, r.ok, r.removed)
        /\ everClicks' = Remember(r.files)
        /\ UNCHANGED <<nextId, idx, srch, pure, host, conn>>

Next ==
    \/ UpsertFile
    \/ UpsertFilesBatch
    \/ RecordClick
    \/ RemoveMissingFiles

\* the storage layer under any sequence of calls
Spec == Init /\ [][Next]_vars

----------------------------------------------------------------------------
(* Strings: to_lowercase / LOWER, contains, LIKE ... ESCAPE '\' *)

\* the letters that have a lower-case form
LowerCase ==
    ("A" :> "a") @@ ("B" :> "b") @@ ("C" :> "c") @@ ("D" :> "d")
    @@ ("E" :> "e") @@ ("F" :> "f") @@ ("G" :> "g") @@ ("H" :> "h")
    @@ ("I" :> "i") @@ ("J" :> "j") @@ ("K" :> "k") @@ ("L" :> "l")
    @@ ("M" :> "m") @@ ("N" :> "n") @@ ("O" :> "o") @@ ("P" :> "p")
    @@ ("Q" :> "q") @@ ("R" :> "r") @@ ("S" :> "s") @@ ("T" :> "t")
    @@ ("U" :> "u") @@ ("V" :> "v") @@ ("W" :> "w") @@ ("X" :> "x")
    @@ ("Y" :> "y") @@ ("Z" :> "z")

\* char::to_lowercase on the characters of the model
Lower(c) == IF c \in DOMAIN LowerCase THEN LowerCase[c] ELSE c

\* str::to_lowercase and SQL LOWER() (they agree on ASCII)
ToLower(s) == [i \in 1..Len(s) |-> Lower(s[i])]

StartsWith(s, t) == Len(t) <= Len(s) /\ SubSeq(s, 1, Len(t)) = t

\* the offsets at which t occurs in s, counted from 0
Occurrences(s, t) ==
    {i \in 0..(Len(s) - Len(t)) : SubSeq(s, i + 1, i + Len(t)) = t}

\* str::contains
Contains(s, t) == Occurrences(s, t) # {}

RECURSIVE EscapeLike(_)
\* query.replace('%', "\\%").replace('_', "\\_")
EscapeLike(q) ==
    IF q = <<>> THEN <<>>
    ELSE IF Head(q) \in {"%", "_"} THEN <<BS, Head(q)>> \o EscapeLike(Tail(q))
    ELSE <<Head(q)>> \o EscapeLike(Tail(q))

\* format!("%{}%", ...) and format!("{}%", ...)
like_pattern(q) == <<"%">> \o EscapeLike(q) \o <<"%">>
prefix_pattern(q) == EscapeLike(q) \o <<"%">>

RECURSIVE Like(_, _)
\* SQLite's  str LIKE pat ESCAPE '\' : % is any run of characters, _ any one
\* character, \ makes the next pattern character literal, and a pattern
\* that ends in a lone \ matches nothing; letters compare without case
Like(pat, str) ==
    IF pat = <<>> THEN str = <<>>
    ELSE IF Head(pat) = "%"
         THEN \E i \in 0..Len(str) : Like(Tail(pat), SubSeq(str, i + 1, Len(str)))
    ELSE IF Head(pat) = BS
         THEN /\ Len(pat) >= 2
              /\ str # <<>>
              /\ Lower(pat[2]) = Lower(Head(str))
              /\ Like(SubSeq(pat, 3, Len(pat)), Tail(str))
    ELSE IF Head(pat) = "_"
         THEN str # <<>> /\ Like(Tail(pat), Tail(str))
    ELSE /\ str # <<>>
         /\ Lower(Head(pat)) = Lower(Head(str))
         /\ Like(Tail(pat), Tail(str))

----------------------------------------------------------------------------
(* classify_file, indexer.rs *)

AppExtensions ==
    {<<"e", "x", "e">>, <<"m", "s", "i">>, <<"a", "p", "p", "x">>,
     <<"m", "s", "i", "x">>}

ShortcutExtensions ==
    {<<"l", "n", "k">>, <<"u", "r", "l">>}

DocumentExtensions ==
    {<<"p", "d", "f">>, <<"d", "o", "c">>, <<"d", "o", "c", "x">>,
     <<"x", "l", "s">>, <<"x", "l", "s", "x">>, <<"p", "p", "t">>,
     <<"p", "p", "t", "x">>, <<"t", "x", "t">>, <<"m", "d">>,
     <<"c", "s", "v">>, <<"r", "t", "f">>, <<"o", "d", "t">>,
     <<"o", "d", "s">>, <<"o", "d", "p">>}

ImageExtensions ==
    {<<"p", "n", "g">>, <<"j", "p", "g">>, <<"j", "p", "e", "g">>,
     <<"g", "i", "f">>, <<"b", "m", "p">>, <<"s", "v", "g">>,
     <<"w", "e", "b", "p">>, <<"i", "c", "o">>}

CodeExtensions ==
    {<<"r", "s">>, <<"p", "y">>, <<"j", "s">>, <<"t", "s">>,
     <<"j", "s", "x">>, <<"t", "s", "x">>, <<"j", "a", "v", "a">>, <<"c">>,
     <<"c", "p", "p">>, <<"h">>, <<"c", "s">>, <<"g", "o">>, <<"r", "b">>,
     <<"p", "h", "p">>, <<"h", "t", "m", "l">>, <<"c", "s", "s">>,
     <<"j", "s", "o", "n">>, <<"x", "m", "l">>, <<"y", "a", "m", "l">>,
     <<"y", "m", "l">>, <<"t", "o", "m", "l">>}

StartMenu == <<"s", "t", "a", "r", "t", " ", "m", "e", "n", "u">>

\* the directory test placed before the extension tests
classify_file_dir_first(extension, filepath, is_dir) ==
    LET ext_lower == ToLower(extension)
        path_lower == ToLower(filepath)
    IN IF is_dir THEN "folder"
       ELSE IF ext_lower \in AppExtensions THEN "app"
       ELSE IF ext_lower \in ShortcutExtensions THEN "shortcut"
       ELSE IF ext_lower \in DocumentExtensions THEN "document"
       ELSE IF ext_lower \in ImageExtensions THEN "image"
       ELSE IF ext_lower \in CodeExtensions THEN "code"
       ELSE IF Contains(path_lower, StartMenu) THEN "app"
       ELSE "other"

\* classify_file(extension, filepath); is_dir is what
\* Path::new(filepath).is_dir() answers
classify_file(extension, filepath, is_dir) ==
    LET ext_lower == ToLower(extension)
        path_lower == ToLower(filepath)
    IN IF ext_lower \in AppExtensions THEN "app"
       ELSE IF ext_lower \in ShortcutExtensions THEN "shortcut"
       ELSE IF is_dir THEN "folder"
       ELSE IF ext_lower \in DocumentExtensions THEN "document"
       ELSE IF ext_lower \in ImageExtensions THEN "image"
       ELSE IF ext_lower \in CodeExtensions THEN "code"
       ELSE IF Contains(path_lower, StartMenu) THEN "app"
       ELSE "other"

\* extensions as the walk passes them: every listed one, upper-case and
\* mixed-case spellings, unlisted ones and none
ClassifyExtensions ==
    AppExtensions \cup ShortcutExtensions \cup DocumentExtensions
    \cup ImageExtensions \cup CodeExtensions
    \cup {<<"E", "X", "E">>, <<"L", "n", "k">>, <<"P", "D", "F">>,
          <<"P", "n", "g">>, <<"R", "S">>, <<"z", "i", "p">>, <<"e", "x">>,
          <<>>}

\* directories the walk is in: under a Start Menu, in either spelling, or not
ClassifyDirs ==
    {<<"c", BS, "S", "t", "a", "r", "t", " ", "M", "e", "n", "u", BS>>,
     <<"c", BS, "S", "T", "A", "R", "T", " ", "M", "E", "N", "U", BS>>,
     <<"c", BS, "s", "t", "a", "r", "t", "m", "e", "n", "u", BS>>,
     <<"d", BS>>}

ClassifyFile ==
    /\ pure = NoCall
    /\ \E extension \in ClassifyExtensions, dir \in ClassifyDirs,
          is_dir \in BOOLEAN :
        LET filepath == dir \o <<"x">>
                        \o (IF extension = <<>> THEN <<>> ELSE <<".">> \o extension)
        IN
        /\ pure' = [op |-> "classify_file", extension |-> extension,
                    filepath |-> filepath, is_dir |-> is_dir,
                    out |-> classify_file(extension, filepath, is_dir)]
        /\ UNCHANGED <<files, nextId, last, everClicks, idx, srch, host, conn>>

----------------------------------------------------------------------------
(* The indexer (indexer.rs) *)

\* Path::extension: the part of the file name after its last dot; none
\* when it has no dot or only a leading one
extension_of(filename) ==
    LET dots == {i \in 2..Len(filename) : filename[i] = "."}
    IN IF dots = {} THEN <<>>
       ELSE SubSeq(filename,
                   (CHOOSE i \in dots : \A j \in dots : i >= j) + 1,
                   Len(filename))

\* full_index, lines 176-209: the tuple pushed for one entry of the walk
walk_entry(filename, dir, is_dir, size, mtime) ==
    LET filepath == dir \o filename
        extension == extension_of(filename)
    IN Entry(filename, filepath, extension, IF is_dir THEN 0 ELSE size,
             mtime, classify_file(extension, filepath, is_dir))

\* a file whose extension is spelled in upper case
E_aC == walk_entry(<<"a", ".", "C">>, <<"d", BS>>, FALSE, 1, 1)

\* the entries the walks of the indexer find: the files d\ab and d\a.C
IndexDiskEntries ==
    {walk_entry(E_ab.filename, <<"d", BS>>, FALSE, E_ab.file_size,
                E_ab.modified_at),
     E_aC}
IndexDiskStates == SUBSET IndexDiskEntries

\* every order in which a walk can yield the entries of d
Walks(d) ==
    {w \in [1..Cardinality(d) -> d] : \A i, j \in 1..Cardinality(d) :
                                          w[i] = w[j] => i = j}

\* rebuild_index, the tray action and the start-up index call full_index
FullIndexStart ==
    /\ idx.pc = "idle"
    /\ idx' = [pc |-> "walk", kind |-> "full"]
    /\ UNCHANGED <<files, nextId, last, everClicks, srch, pure, host, conn>>

\* incremental_index, first half: remove_missing_files, `?` on its error
IncrementalIndexStart ==
    \E d \in IndexDiskStates : \E nread \in 0..Len(files) :
    \E fault \in RemoveFaults(files, d, nread) :
        LET r == remove_missing_files(files, d, nread, fault) IN
        /\ idx.pc = "idle"
        /\ files' = r.files
        /\ last' = Call("incremental_index", <<>>, <<>>, d, r.ok, r.removed)
        /\ everClicks' = Remember(r.files)
        /\ idx' = IF r.ok THEN [pc |-> "walk", kind |-> "incremental"]
                  ELSE idx
        /\ UNCHANGED <<nextId, srch, pure, host, conn>>

\* full_index: the walk and the flush of its batch; an error of
\* upsert_files_batch is logged and the pass goes on
FullIndexWalk ==
    \E d \in IndexDiskStates : \E batch \in Walks(d) :
    \E fault \in BatchFaults(batch) :
        LET r == IF batch = <<>> THEN [st |-> Store, ok |-> TRUE]
                 ELSE upsert_files_batch(Store, batch, fault) IN
        /\ idx.pc = "walk"
        /\ ExecuteAll(Store, batch).nextId <= MaxId + 1
        /\ files' = r.st.files
        /\ nextId' = r.st.nextId
        /\ last' = Call("full_index", <<>>, IF r.ok THEN batch ELSE <<>>, d,
                        r.ok, Len(batch))
        /\ everClicks' = Remember(r.st.files)
        /\ idx' = [pc |-> "idle", kind |-> "none"]
        /\ UNCHANGED <<srch, pure, host, conn>>

\* full_index is the caller of upsert_files_batch
IndexNext ==
    \/ UpsertFile
    \/ RecordClick
    \/ FullIndexStart
    \/ IncrementalIndexStart
    \/ FullIndexWalk

\* the storage layer under upserts, clicks and indexing passes
SpecIndex == Init /\ [][IndexNext]_vars

----------------------------------------------------------------------------
(* One indexing pass step by step, with the table index_meta *)

MetaKeys == {"last_full_index", "last_incremental_index"}

\* table index_meta: the value of each key, 0 when the key is absent
NoMeta == [k \in MetaKeys |-> 0]

\* mutant: the timestamp is not written
set_meta_skipped(meta, key, value, fail) == [meta |-> meta, ok |-> TRUE]

\* Database::set_meta: the upsert of one key, or an error that leaves the
\* table as it was
set_meta(meta, key, value, fail) ==
    IF fail THEN [meta |-> meta, ok |-> FALSE]
    ELSE [meta |-> [meta EXCEPT ![key] = value], ok |-> TRUE]

\* the rows a pass may find in the store: d\Abb is no longer on disk
PassWalkOrder == <<E_ab, E_aC, E_Abb>>
PassStores ==
    {LET found == SelectSeq(PassWalkOrder, LAMBDA e : e \in S)
     IN [i \in 1..Len(found) |-> NewRow(i, found[i])] :
        S \in SUBSET Range(PassWalkOrder)}

\* index_meta before the pass: empty, or stamped by an earlier pass
PassMetas == {NoMeta, [k \in MetaKeys |-> 1]}

\* chrono::Utc::now().timestamp() when the pass writes its timestamps
StampTimes == {t + 1 : t \in Times}

\* the pass: before and meta0 are the tables when it was called, disk and
\* walked what its walk found, steps the calls it made on the store
NoPass(meta) ==
    [pc |-> "idle", kind |-> "none", before |-> <<>>, removed |-> 0,
     disk |-> {}, walked |-> <<>>, flushed |-> FALSE, indexed |-> 0,
     now |-> 0, meta |-> meta, meta0 |-> meta, steps |-> <<>>]

PassInit ==
    /\ files \in PassStores
    /\ nextId = Len(files) + 1
    /\ last = Call("open", <<>>, <<>>, {}, TRUE, 0)
    /\ everClicks = [p \in Paths |-> ClicksOf(files, p)]
    /\ idx \in {NoPass(m) : m \in PassMetas}
    /\ srch = NoSearch
    /\ pure = NoCall
    /\ host = HostStart
    /\ conn = Unlocked

\* full_index called by the host
FullIndexCall ==
    /\ idx.pc = "idle"
    /\ idx' = [idx EXCEPT !.pc = "walk", !.kind = "full", !.before = files]
    /\ UNCHANGED <<files, nextId, last, everClicks, srch, pure, host, conn>>

\* incremental_index, lines 239-246: remove_missing_files, `?` on its error
IncrementalIndexCall ==
    /\ idx.pc = "idle"
    /\ \E d \in IndexDiskStates : \E nread \in 0..Len(files) :
       \E fault \in RemoveFaults(files, d, nread) :
        LET r == remove_missing_files(files, d, nread, fault) IN
        /\ files' = r.files
        /\ everClicks' = Remember(r.files)
        /\ idx' = [idx EXCEPT !.pc = IF r.ok THEN "walk" ELSE "done",
                              !.kind = "incremental",
                              !.before = files,
                              !.removed = r.removed,
                              !.steps = <<"remove_missing_files">>]
        /\ last' = IF r.ok THEN last
                   ELSE Call("incremental_index", <<>>, <<>>, d, FALSE, 0)
        /\ UNCHANGED <<nextId, srch, pure, host, conn>>

\* full_index, lines 126-228: the walk and the flush of its batch
PassWalk ==
    /\ idx.pc = "walk"
    /\ \E d \in IndexDiskStates : \E batch \in Walks(d) :
       \E fault \in BatchFaults(batch) :
        LET r == IF batch = <<>> THEN [st |-> Store, ok |-> TRUE]
                 ELSE upsert_files_batch(Store, batch, fault) IN
        /\ files' = r.st.files
        /\ nextId' = r.st.nextId
        /\ everClicks' = Remember(r.st.files)
        /\ idx' = [idx EXCEPT !.pc = "set_meta_full",
                              !.disk = d, !.walked = batch,
                              !.flushed = r.ok,
                              !.indexed = Len(batch),
                              !.steps = Append(@, "walk")]
        /\ UNCHANGED <<last, srch, pure, host, conn>>

\* full_index, lines 231-235: let _ = set_meta("last_full_index"), Ok(total)
PassSetMetaFull ==
    /\ idx.pc = "set_meta_full"
    /\ \E now \in StampTimes, fail \in BOOLEAN :
        LET r == set_meta(idx.meta, "last_full_index", now, fail) IN
        /\ idx' = [idx EXCEPT !.pc = IF idx.kind = "full" THEN "done"
                                     ELSE "set_meta_incremental",
                              !.now = now,
                              !.meta = r.meta,
                              !.steps = Append(@, "set_meta")]
        /\ last' = IF idx.kind = "full"
                   THEN Call("full_index", <<>>,
                             IF idx.flushed THEN idx.walked ELSE <<>>,
                             idx.disk, TRUE, idx.indexed)
                   ELSE last
        /\ UNCHANGED <<files, nextId, everClicks, srch, pure, host, conn>>

\* incremental_index, lines 249-254: let _ = set_meta(
\* "last_incremental_index"), Ok((indexed, removed))
PassSetMetaIncremental ==
    /\ idx.pc = "set_meta_incremental"
    /\ \E now \in StampTimes, fail \in BOOLEAN :
        LET r == set_meta(idx.meta, "last_incremental_index", now, fail) IN
        /\ idx' = [idx EXCEPT !.pc = "done", !.now = now, !.meta = r.meta,
                              !.steps = Append(@, "set_meta")]
        /\ last' = Call("incremental_index", <<>>,
                        IF idx.flushed THEN idx.walked ELSE <<>>,
                        idx.disk, TRUE, <<idx.indexed, idx.removed>>)
        /\ UNCHANGED <<files, nextId, everClicks, srch, pure, host, conn>>

\* rebuild_index, lines 87-96, when the blocking task was joined: the
\* result of full_index is what the command returns
RebuildIndexResult ==
    /\ idx.pc = "done"
    /\ idx.kind = "full"
    /\ idx' = [idx EXCEPT !.pc = "returned"]
    /\ last' = [last EXCEPT !.op = "rebuild_index"]
    /\ UNCHANGED <<files, nextId, everClicks, srch, pure, host, conn>>

PassNext ==
    \/ FullIndexCall
    \/ IncrementalIndexCall
    \/ PassWalk
    \/ PassSetMetaFull
    \/ PassSetMetaIncremental
    \/ RebuildIndexResult

\* one call of full_index or incremental_index on a store
SpecPass == PassInit /\ [][PassNext]_vars

----------------------------------------------------------------------------
(* The host (lib.rs): the flag AppState.indexing and the four tasks that  *)
(* start an indexing pass.  One task of each kind is in flight at a time. *)

Busy == "Indexing is already in progress"

\* a swap that inverts the flag
swap_toggles(flag, value) == [was |-> flag, now |-> ~flag]

\* AtomicBool::swap(value, SeqCst): the old value is returned
swap(flag, value) == [was |-> flag, now |-> value]

\* lines 304-310: the start-up task stores true without looking at the flag
InitialIndexStart ==
    /\ host.pc["initial"] = "idle"
    /\ host' = [host EXCEPT !.indexing = TRUE, !.pc["initial"] = "pass"]
    /\ UNCHANGED <<files, nextId, last, everClicks, idx, srch, pure, conn>>

\* rebuild_index, lines 79-84: the flag was set, the call returns the error
RebuildIndexRefused ==
    /\ host.calls < MaxCalls
    /\ LET s == swap(host.indexing, TRUE) IN
        /\ s.was
        /\ host' = [host EXCEPT !.indexing = s.now, !.calls = @ + 1,
                                !.result["rebuild"] = "busy"]
        /\ last' = Call("rebuild_index", <<>>, <<>>, {}, FALSE, Busy)
    /\ UNCHANGED <<files, nextId, everClicks, idx, srch, pure, conn>>

\* rebuild_index, lines 79-87: the flag was clear, full_index is spawned
RebuildIndexAccepted ==
    /\ host.calls < MaxCalls
    /\ host.pc["rebuild"] = "idle"
    /\ LET s == swap(host.indexing, TRUE) IN
        /\ ~s.was
        /\ host' = [host EXCEPT !.indexing = s.now, !.calls = @ + 1,
                                !.pc["rebuild"] = "pass",
                                !.result["rebuild"] = "none"]
    /\ UNCHANGED <<files, nextId, last, everClicks, idx, srch, pure, conn>>

\* the tray action (lines 161-164) and the background loop (lines 219-224):
\* a pass is started when the swap finds the flag clear, skipped otherwise
gated_start(hst, h) ==
    LET s == swap(hst.indexing, TRUE)
    IN IF s.was
       THEN [hst EXCEPT !.indexing = s.now, !.result[h] = "skipped"]
       ELSE [hst EXCEPT !.indexing = s.now, !.pc[h] = "pass",
                        !.result[h] = "none"]

\* the tray menu item "rebuild", lines 156-164
TrayRebuild ==
    /\ host.pc["tray"] = "idle"
    /\ host' = gated_start(host, "tray")
    /\ UNCHANGED <<files, nextId, last, everClicks, idx, srch, pure, conn>>

\* start_background_indexer, lines 217-224: one turn of the loop
BackgroundIndex ==
    /\ host.pc["background"] = "idle"
    /\ host' = gated_start(host, "background")
    /\ UNCHANGED <<files, nextId, last, everClicks, idx, srch, pure, conn>>

\* a running pass writes an entry of its walk to the store
PassWrites ==
    \E h \in HostPaths, e \in DiskEntries :
        LET r == upsert_file(Store, e, FALSE) IN
        /\ host.pc[h] = "pass"
        /\ r.st.nextId <= MaxId + 1
        /\ files' = r.st.files
        /\ nextId' = r.st.nextId
        /\ last' = Call("upsert_file", e.filepath, <<e>>, {}, TRUE, 0)
        /\ everClicks' = Remember(r.st.files)
        /\ UNCHANGED <<idx, srch, pure, host, conn>>

\* what spawn_blocking(...).await gives: the result of the pass, or a join
\* error when the blocking task panicked; only incremental_index has an Err
PassResults(h) ==
    {"ok", "join_err"} \cup (IF h = "background" THEN {"err"} ELSE {})

\* the pass of task h ends and the task resumes after its await
PassReturns ==
    \E h \in HostPaths : \E res \in PassResults(h) :
        /\ host.pc[h] = "pass"
        /\ host' = [host EXCEPT !.pc[h] = "joined", !.result[h] = res]
        /\ UNCHANGED <<files, nextId, last, everClicks, idx, srch, pure, conn>>

\* rebuild_index, lines 88-96: `?` returns a join error before the flag is
\* cleared; otherwise the flag is cleared and the result returned
RebuildIndexReturns ==
    /\ host.pc["rebuild"] = "joined"
    /\ host' = [host EXCEPT
                  !.indexing = IF host.result["rebuild"] = "join_err"
                               THEN @ ELSE FALSE,
                  !.pc["rebuild"] = "idle"]
    /\ last' = Call("rebuild_index", <<>>, <<>>, {},
                    host.result["rebuild"] = "ok", host.result["rebuild"])
    /\ UNCHANGED <<files, nextId, everClicks, idx, srch, pure, conn>>

\* lines 312, 165, 226: the other tasks clear the flag whatever the result;
\* the start-up task ends, the tray waits for the next click, the
\* background loop sleeps
StoreFalse ==
    \E h \in HostPaths \ {"rebuild"} :
        /\ host.pc[h] = "joined"
        /\ host' = [host EXCEPT !.indexing = FALSE,
                                !.pc[h] = IF h = "initial" THEN "done"
                                          ELSE "idle"]
        /\ UNCHANGED <<files, nextId, last, everClicks, idx, srch, pure, conn>>

HostNext ==
    \/ InitialIndexStart
    \/ RebuildIndexRefused
    \/ RebuildIndexAccepted
    \/ TrayRebuild
    \/ BackgroundIndex
    \/ PassWrites
    \/ PassReturns
    \/ RebuildIndexReturns
    \/ StoreFalse

\* the host tasks under every interleaving
SpecHost == Init /\ [][HostNext]_vars

----------------------------------------------------------------------------
(* search_files (db.rs) *)

\* CASE ... END AS match_score
match_score(row, q) ==
    IF ToLower(row.filename) = ToLower(q) THEN 100
    ELSE IF Like(ToLower(prefix_pattern(q)), ToLower(row.filename)) THEN 75
    ELSE IF Like(ToLower(like_pattern(q)), ToLower(row.filename)) THEN 50
    ELSE IF Like(ToLower(like_pattern(q)), ToLower(row.filepath)) THEN 25
    ELSE 0

\* CASE file_type WHEN 'app' THEN 5 ... ELSE 1 END
type_rank(t) ==
    CASE t = "app" -> 5 [] t = "shortcut" -> 4 [] t = "document" -> 3
      [] t = "folder" -> 2 [] OTHER -> 1

\* WHERE LOWER(filename) LIKE LOWER(?3) OR LOWER(filepath) LIKE LOWER(?3)
where_matches(row, q) ==
    \/ Like(ToLower(like_pattern(q)), ToLower(row.filename))
    \/ Like(ToLower(like_pattern(q)), ToLower(row.filepath))

\* mutant: ORDER BY match_score DESC only
order_key_score_only(row, q) == <<match_score(row, q), 0, 0, 0, 0>>

\* the ORDER BY key, compared lexicographically, larger first
order_key(row, q) ==
    <<match_score(row, q), type_rank(row.file_type), row.click_count,
      row.last_accessed, row.modified_at>>

RECURSIVE KeyGreater(_, _)
KeyGreater(a, b) ==
    /\ a # <<>>
    /\ \/ Head(a) > Head(b)
       \/ Head(a) = Head(b) /\ KeyGreater(Tail(a), Tail(b))

\* the orders in which the statement can return the matching rows: every
\* arrangement in which no row comes after one with a smaller key (rows
\* with equal keys come in any order)
Ordered(fs, q) ==
    LET match == {i \in 1..Len(fs) : where_matches(fs[i], q)}
        n == Cardinality(match)
    IN {[k \in 1..n |-> fs[o[k]]] :
           o \in {o \in [1..n -> match] :
                     /\ \A a, b \in 1..n : o[a] = o[b] => a = b
                     /\ \A a \in 1..n : a < n =>
                           ~KeyGreater(order_key(fs[o[a + 1]], q),
                                       order_key(fs[o[a]], q))}}

Min(a, b) == IF a <= b THEN a ELSE b

\* LIMIT ?4
Limit(rows, limit) == SubSeq(rows, 1, Min(limit, Len(rows)))

\* search_files: sorted is the order the statement produced; nread rows are
\* read before a step of the cursor fails (all of them when none does), and
\* `if let Ok(entry) = row` drops the error
search_files(sorted, limit, nread) ==
    LET rows == Limit(sorted, limit)
    IN SubSeq(rows, 1, Min(nread, Len(rows)))

\* get_all_filenames: the table in rowid order; nread rows are read before
\* a step of the cursor fails, and the error is dropped
get_all_filenames(fs, nread) == SubSeq(fs, 1, Min(nread, Len(fs)))

----------------------------------------------------------------------------
(* Scoring (searcher.rs); scores are in thousandths *)

Milli == 1000

\* 15 * ln(n) in thousandths, for n = 1, 2, ...
Ln15 == <<0, 10397, 16479, 20794, 24142, 26876, 29189, 31192>>

\* file_type_boost
file_type_boost(t) ==
    CASE t = "app" -> 50 * Milli [] t = "shortcut" -> 40 * Milli
      [] t = "document" -> 20 * Milli [] t = "folder" -> 15 * Milli
      [] t = "code" -> 10 * Milli [] t = "image" -> 5 * Milli
      [] OTHER -> 0

\* a click boost that falls with the number of clicks
usage_boost_falling(click_count, last_accessed, now) ==
    LET age_hours == Max(now - last_accessed, 1)
    IN (IF click_count > 0 THEN 0 - Ln15[Min(click_count, Len(Ln15))] ELSE 0)
       + (IF last_accessed > 0
          THEN Min((100 * Milli) \div age_hours, 30 * Milli) ELSE 0)

\* usage_boost; times are in hours, so age_hours is now - last_accessed
usage_boost(click_count, last_accessed, now) ==
    LET click_boost == IF click_count > 0
                       THEN Ln15[Min(click_count, Len(Ln15))]
                       ELSE 0
        age_hours == Max(now - last_accessed, 1)
        recency_boost == IF last_accessed > 0
                         THEN Min((100 * Milli) \div age_hours, 30 * Milli)
                         ELSE 0
    IN click_boost + recency_boost

RECURSIVE IsSubsequence(_, _)
\* the characters of q occur in s in this order
IsSubsequence(q, s) ==
    IF q = <<>> THEN TRUE
    ELSE IF s = <<>> THEN FALSE
    ELSE IF Head(q) = Head(s) THEN IsSubsequence(Tail(q), Tail(s))
    ELSE IsSubsequence(q, Tail(s))

RECURSIVE Embedding(_, _, _)
\* the offsets of the leftmost occurrence of q in s as a subsequence
Embedding(q, s, at) ==
    IF q = <<>> \/ s = <<>> THEN <<>>
    ELSE IF Head(q) = Head(s)
         THEN <<at>> \o Embedding(Tail(q), Tail(s), at + 1)
    ELSE Embedding(q, Tail(s), at + 1)

\* the scores SkimMatcherV2 may give to a match
FuzzyScores == {0, 40}

None == [some |-> FALSE, score |-> 0, indices |-> <<>>]

\* matcher.fuzzy_indices(s, q): None unless q is a subsequence of s; sc
\* is the score the matcher gives
fuzzy_indices(s, q, sc) ==
    IF IsSubsequence(q, s)
    THEN [some |-> TRUE, score |-> sc, indices |-> Embedding(q, s, 0)]
    ELSE None

\* s.split('.').next()
FirstSegment(s) ==
    LET dots == {i \in 1..Len(s) : s[i] = "."}
    IN IF dots = {} THEN s
       ELSE SubSeq(s, 1, (CHOOSE i \in dots : \A j \in dots : i <= j) - 1)

\* (a..b).collect()
Indices(a, b) == [i \in 1..(b - a) |-> a + i - 1]

Scored(score, match_type, indices) ==
    [score |-> score, match_type |-> match_type, indices |-> indices]

\* mutant: the prefix test comes before the test for equality
best_match_prefix_first(entry, query_lower, sc) ==
    LET filename_lower == ToLower(entry.filename)
        n == Len(query_lower)
    IN IF StartsWith(filename_lower, query_lower)
       THEN Scored(800 * Milli, "prefix", Indices(0, n))
       ELSE IF Contains(filename_lower, query_lower)
       THEN Scored(600 * Milli, "substring", Indices(0, n))
       ELSE Scored(300 * Milli, "path", <<>>)

\* score_entry, lines 126-173: best_score, match_type, matched_indices
best_match(entry, query_lower, sc) ==
    LET filename_lower == ToLower(entry.filename)
        filepath_lower == ToLower(entry.filepath)
        n == Len(query_lower)
        pos == Occurrences(filename_lower, query_lower)
        fname == fuzzy_indices(filename_lower, query_lower, sc)
        fpath == fuzzy_indices(filepath_lower, query_lower, sc)
    IN IF filename_lower = query_lower
       THEN Scored(1000 * Milli, "exact", Indices(0, Len(entry.filename)))
       ELSE IF FirstSegment(filename_lower) = query_lower
       THEN Scored(950 * Milli, "exact", Indices(0, n))
       ELSE IF StartsWith(filename_lower, query_lower)
       THEN Scored(800 * Milli, "prefix", Indices(0, n))
       ELSE IF pos # {}
       THEN LET p == CHOOSE i \in pos : \A j \in pos : i <= j
            IN Scored(600 * Milli, "substring", Indices(p, p + n))
       ELSE IF Contains(filepath_lower, query_lower)
       THEN Scored(300 * Milli, "path", <<>>)
       ELSE IF fname.some
       THEN Scored(Max(fname.score * Milli, 10 * Milli), "fuzzy",
                   fname.indices)
       ELSE IF fpath.some
       THEN Scored(Max((fpath.score * Milli) \div 2, 5 * Milli), "path",
                   fpath.indices)
       ELSE Scored(0, "none", <<>>)

\* score_entry
score_entry(entry, query_lower, sc, now) ==
    LET best == best_match(entry, query_lower, sc)
    IN Scored(best.score + file_type_boost(entry.file_type)
                + usage_boost(entry.click_count, entry.last_accessed, now),
              best.match_type, best.indices)

\* a SearchResult built from a row and its score
SearchResult(e, extension, file_size, sc) ==
    [id |-> e.id, filename |-> e.filename, filepath |-> e.filepath,
     extension |-> extension, file_size |-> file_size,
     modified_at |-> e.modified_at, file_type |-> e.file_type,
     click_count |-> e.click_count, last_accessed |-> e.last_accessed,
     score |-> sc.score, match_type |-> sc.match_type,
     matched_indices |-> sc.indices]

\* the matcher's score for the row with this id
ScoreOf(fz, id) == IF id \in DOMAIN fz THEN fz[id] ELSE 0

\* search, lines 48-65: score the rows of search_files
ScoreSqlResults(sql_results, query_lower, fz, now) ==
    [i \in 1..Len(sql_results) |->
        LET entry == sql_results[i]
        IN SearchResult(entry, entry.extension, entry.file_size,
                        score_entry(entry, query_lower,
                                    ScoreOf(fz, entry.id), now))]

\* mutant: the fuzzy scan does not look at seen_ids
AlreadySeen_never(seen_ids, id) == FALSE

\* seen_ids.contains(id)
AlreadySeen(seen_ids, id) == id \in seen_ids

\* search, lines 87-90: the score of a result of the fuzzy scan
fuzzy_final_score(fuzzy_score, file_type, click_count, last_accessed, now) ==
    (fuzzy_score * Milli) \div 2
        + file_type_boost(file_type)
        + usage_boost(click_count, last_accessed, now)

RECURSIVE FuzzyScan(_, _, _, _, _)
\* search, lines 74-109: the fuzzy scan over all_files; acc holds
\* scored_results, seen_ids and the ids this scan scored
FuzzyScan(all_files, query_lower, fz, now, acc) ==
    IF all_files = <<>> THEN acc
    ELSE
        LET f == Head(all_files)
            m == fuzzy_indices(ToLower(f.filename), query_lower,
                               ScoreOf(fz, f.id))
            final_score == fuzzy_final_score(m.score, f.file_type,
                                             f.click_count, f.last_accessed,
                                             now)
            r == SearchResult(f, <<>>, 0,
                              Scored(final_score, "fuzzy", m.indices))
        IN IF AlreadySeen(acc.seen, f.id) \/ ~m.some \/ ~(m.score > 0)
           THEN FuzzyScan(Tail(all_files), query_lower, fz, now, acc)
           ELSE FuzzyScan(Tail(all_files), query_lower, fz, now,
                          [scored |-> Append(acc.scored, r),
                           seen |-> acc.seen \cup {f.id},
                           p2 |-> Append(acc.p2, f.id)])

RECURSIVE InsertByScore(_, _)
\* r goes behind every result whose score is not smaller
InsertByScore(r, rs) ==
    IF rs = <<>> THEN <<r>>
    ELSE IF Head(rs).score >= r.score
         THEN <<Head(rs)>> \o InsertByScore(r, Tail(rs))
    ELSE <<r>> \o rs

\* mutant: the list stays in the order in which the results were scored
SortByScore_kept(rs, done) == done \o rs

RECURSIVE SortByScore(_, _)
\* scored_results.sort_by(|a, b| b.score.partial_cmp(&a.score)...): stable,
\* larger scores first; done holds the results sorted so far
SortByScore(rs, done) ==
    IF rs = <<>> THEN done
    ELSE SortByScore(Tail(rs), InsertByScore(Head(rs), done))

\* mutant: the list is returned whole
truncate_none(rs, max_results) == rs

\* scored_results.truncate(max_results)
truncate(rs, max_results) == SubSeq(rs, 1, Min(max_results, Len(rs)))

\* search, lines 112-117
Finish(scored_results, max_results) ==
    truncate(SortByScore(scored_results, <<>>), max_results)

----------------------------------------------------------------------------
(* Searching a store *)

P_bab == <<"d", BS, "b", "a", "b">>
P_c == <<"a", "b", BS, "c">>
P_bapb == <<"a", "b", BS, "b", "a", "%", "b">>

\* the file d\bab, the directory ab\c and the file ab\ba%b
E_bab == Entry(<<"b", "a", "b">>, P_bab, <<>>, 1, 1, "other")
E_c == Entry(<<"c">>, P_c, <<>>, 0, 1, "folder")
E_bapb == Entry(<<"b", "a", "%", "b">>, P_bapb, <<>>, 1, 1, "other")

\* the entries of the stores that are searched, in the order of their ids
SearchWalk == <<E_ab, E_Abb, E_bab, E_c, E_bapb>>
SearchEntries == Range(SearchWalk)

\* the files other threads add, launch and find gone during a search
ConcurrentEntries == {E_Abb, E_bab}

\* the file system with one of these files gone
SearchDisks == {SearchEntries \ {e} : e \in ConcurrentEntries}

\* the store after a walk that found the entries of S and n launches of
\* d\Abb, the last at time 1
StoreOf(S, n) ==
    LET found == SelectSeq(SearchWalk, LAMBDA e : e \in S)
    IN [i \in 1..Len(found) |->
           IF found[i] = E_Abb /\ n > 0
           THEN [NewRow(i, found[i]) EXCEPT !.click_count = n,
                                            !.last_accessed = 1]
           ELSE NewRow(i, found[i])]

SearchStores ==
    {StoreOf(S, n) : S \in SUBSET SearchEntries, n \in 0..MaxClicks}

\* what a caller of search_files passes
Queries ==
    {<<>>, <<"a", "b">>, <<"B", "b">>, <<"b">>, <<"%">>, <<"_">>,
     <<BS>>, <<"a", BS, "b">>}

\* what the user types, besides a blank query
TypedQueries == {<<"a", "b">>, <<"B", "b">>, <<BS>>, <<"a", BS, "b">>}

\* queries of nothing but white space
BlankQueries == {<<>>, <<" ">>, <<" ", "\t">>}

WhiteSpace == {" ", "\t", "\n", "\r"}

RECURSIVE TrimStart(_)
TrimStart(s) ==
    IF s # <<>> /\ Head(s) \in WhiteSpace THEN TrimStart(Tail(s)) ELSE s

RECURSIVE TrimEnd(_)
TrimEnd(s) ==
    IF s # <<>> /\ s[Len(s)] \in WhiteSpace
    THEN TrimEnd(SubSeq(s, 1, Len(s) - 1))
    ELSE s

\* query.trim()
Trim(s) == TrimEnd(TrimStart(s))

is_blank_never(query) == FALSE

\* search, line 31: query.trim().is_empty()
is_blank(query) == Trim(query) = <<>>

\* max_results; the command passes 15
MaxResults == 2
Limits == 1..(3 * MaxResults)

\* calls of other threads while one search is between its two reads
MaxOps == 1

SearchInit ==
    /\ files \in SearchStores
    /\ nextId = Len(files) + 1
    /\ last = Call("open", <<>>, <<>>, {}, TRUE, 0)
    /\ everClicks = [p \in Paths |-> ClicksOf(files, p)]
    /\ idx = [pc |-> "idle", kind |-> "none"]
    /\ srch = NoSearch
    /\ pure = NoCall
    /\ host = HostStart
    /\ conn = Unlocked

\* a call of Database::search_files; conn.prepare or query_map may fail
SearchFiles ==
    /\ srch.pc = "idle"
    /\ \E q \in Queries, limit \in Limits :
        \/ srch' = [Search("done", "search_files", q, limit, FALSE,
                           <<>>, <<>>, {}, <<>>, 0, <<>>)
                    EXCEPT !.reads = 1]
        \/ \E sorted \in Ordered(files, q) :
           \E nread \in 0..Len(Limit(sorted, limit)) :
              srch' = [Search("done", "search_files", q, limit, TRUE,
                              search_files(sorted, limit, nread),
                              <<>>, {}, <<>>, 0, <<>>)
                       EXCEPT !.reads = 1]
    /\ UNCHANGED <<files, nextId, last, everClicks, idx, pure, host, conn>>

\* the rows for which score_entry asks the matcher
UsesMatcher(entry, query_lower) ==
    /\ ~Contains(ToLower(entry.filename), query_lower)
    /\ ~Contains(ToLower(entry.filepath), query_lower)
    /\ FirstSegment(ToLower(entry.filename)) # query_lower
    /\ \/ IsSubsequence(query_lower, ToLower(entry.filename))
       \/ IsSubsequence(query_lower, ToLower(entry.filepath))

\* the scores the matcher may give to the listed rows
MatcherScores(rows) == [{rows[i].id : i \in 1..Len(rows)} -> FuzzyScores]

\* search, lines 31-33: a blank query returns before the store is touched
SearchBlank ==
    /\ srch.pc = "idle"
    /\ \E query \in BlankQueries \cup TypedQueries,
          max_results \in 1..MaxResults :
        /\ is_blank(query)
        /\ srch' = Search("done", "search", query, max_results, TRUE,
                          <<>>, <<>>, {}, <<>>, 0, <<>>)
        /\ UNCHANGED <<files, nextId, last, everClicks, idx, pure, host, conn>>

\* search, line 39: the number of rows asked of search_files
fetch_limit(max_results) == max_results * 3

\* a search that always goes on to the fuzzy scan
needs_fuzzy_scan_always(found, max_results) == TRUE

\* search, line 69: scored_results.len() < max_results
needs_fuzzy_scan(found, max_results) == found < max_results

\* search, lines 35-69, and lines 112-117 when the fuzzy scan is skipped
SearchPhase1 ==
    /\ srch.pc = "idle"
    /\ \E query \in BlankQueries \cup TypedQueries,
          max_results \in 1..MaxResults :
      /\ ~is_blank(query)
      /\
        \/ srch' = [Search("done", "search", query, max_results, FALSE,
                           <<>>, <<>>, {}, <<>>, 0, <<>>)
                    EXCEPT !.reads = 1]
        \/ \E now \in Times :
           \E sorted \in Ordered(files, ToLower(query)) :
           \E nread \in 0..Len(Limit(sorted, fetch_limit(max_results))) :
            LET query_lower == ToLower(query)
                sql_results == search_files(sorted, fetch_limit(max_results),
                                            nread)
                asked == SelectSeq(sql_results,
                                   LAMBDA e : UsesMatcher(e, query_lower))
            IN \E fz \in MatcherScores(asked) :
                LET scored_results ==
                        ScoreSqlResults(sql_results, query_lower, fz, now)
                    seen_ids == {sql_results[i].id : i \in 1..Len(sql_results)}
                IN
                srch' =
                    [IF needs_fuzzy_scan(Len(scored_results), max_results)
                     THEN Search("phase2", "search", query, max_results, TRUE,
                                 sql_results, scored_results, seen_ids,
                                 <<>>, 0, <<>>)
                     ELSE Search("done", "search", query, max_results, TRUE,
                                 sql_results, scored_results, seen_ids, <<>>,
                                 Len(scored_results),
                                 Finish(scored_results, max_results))
                     EXCEPT !.reads = 1]
    /\ UNCHANGED <<files, nextId, last, everClicks, idx, pure, host, conn>>

\* search, lines 70-117: get_all_filenames, the fuzzy scan, sort, truncate
SearchPhase2 ==
    /\ srch.pc = "phase2"
    /\ \/ srch' = [Search("done", "search", srch.query, srch.limit, FALSE,
                            srch.rows, <<>>, {}, <<>>, 0, <<>>)
                     EXCEPT !.ops = srch.ops, !.reads = 2]
       \/ \E now \in Times, nread \in 0..Len(files) :
            LET query_lower == ToLower(srch.query)
                all_files == get_all_filenames(files, nread)
                asked == SelectSeq(all_files,
                            LAMBDA f : /\ ~AlreadySeen(srch.seen, f.id)
                                       /\ IsSubsequence(query_lower,
                                                        ToLower(f.filename)))
            IN \E fz \in MatcherScores(asked) :
                LET acc == FuzzyScan(all_files, query_lower, fz, now,
                                     [scored |-> srch.scored, seen |-> srch.seen,
                                      p2 |-> <<>>])
                IN
                srch' = [Search("done", "search", srch.query, srch.limit,
                                TRUE, srch.rows, acc.scored, acc.seen, acc.p2,
                                Len(acc.scored), Finish(acc.scored, srch.limit))
                         EXCEPT !.ops = srch.ops, !.reads = 2]
    /\ UNCHANGED <<files, nextId, last, everClicks, idx, pure, host, conn>>

\* launch_file and the indexer run on other threads: between search_files
\* and get_all_filenames the connection is unlocked
ConcurrentUpsert ==
    /\ srch.pc = "phase2"
    /\ srch.ops < MaxOps
    /\ \E e \in ConcurrentEntries :
        LET r == upsert_file(Store, e, FALSE) IN
        /\ files' = r.st.files
        /\ nextId' = r.st.nextId
        /\ last' = Call("upsert_file", e.filepath, <<e>>, {}, TRUE, 0)
        /\ everClicks' = Remember(r.st.files)
        /\ srch' = [srch EXCEPT !.ops = @ + 1]
        /\ UNCHANGED <<idx, pure, host, conn>>

ConcurrentClick ==
    /\ srch.pc = "phase2"
    /\ srch.ops < MaxOps
    /\ \E e \in ConcurrentEntries, t \in Times :
        LET r == record_click(files, e.filepath, t, FALSE) IN
        /\ files' = r.files
        /\ last' = Call("record_click", e.filepath, <<>>, {}, TRUE, t)
        /\ everClicks' = Remember(r.files)
        /\ srch' = [srch EXCEPT !.ops = @ + 1]
        /\ UNCHANGED <<nextId, idx, pure, host, conn>>

ConcurrentRemove ==
    /\ srch.pc = "phase2"
    /\ srch.ops < MaxOps
    /\ \E d \in SearchDisks :
        LET r == remove_missing_files(files, d, Len(files), NoFault) IN
        /\ files' = r.files
        /\ last' = Call("remove_missing_files", <<>>, <<>>, d, TRUE, r.removed)
        /\ everClicks' = Remember(r.files)
        /\ srch' = [srch EXCEPT !.ops = @ + 1]
        /\ UNCHANGED <<nextId, idx, pure, host, conn>>

SearchNext ==
    \/ SearchFiles
    \/ SearchBlank
    \/ SearchPhase1
    \/ ConcurrentUpsert
    \/ ConcurrentClick
    \/ ConcurrentRemove
    \/ SearchPhase2

\* one search of a store, with the calls of other threads between the two
\* reads of the search
SpecSearch == SearchInit /\ [][SearchNext]_vars

----------------------------------------------------------------------------
(* Calls of score_entry *)

\* names with no dot, one dot and two dots
ScoreNames ==
    {<<"a", "b">>, <<"A", "b", "b">>, <<"b", "a", "b">>, <<"c">>,
     <<"a", "b", ".", "a">>, <<"a", ".", "b", ".", "a">>}

\* the directory of a file of that name
ScoreDir(name) == IF name = <<"c">> THEN <<"a", "b", BS>> ELSE <<"d", BS>>

\* the rows score_entry is called on: clicked n times, the last at time 1
ScoreRows ==
    {[NewRow(1, Entry(name, ScoreDir(name) \o name, <<>>, 1, 1, t))
         EXCEPT !.click_count = n, !.last_accessed = IF n = 0 THEN 0 ELSE 1] :
        name \in ScoreNames, t \in {"other", "app"}, n \in {0, 2}}

ScoreQueries == {<<"a", "b">>, <<"a", ".", "b">>, <<"a">>}

\* the hour at which usage_boost reads the clock
ScoreTimes == {1, 5, 200}

\* search, line 49, for two rows that search_files returned: usage_boost
\* reads the clock for each
ScoreEntries ==
    /\ pure = NoCall
    /\ \E e1, e2 \in ScoreRows, q \in ScoreQueries, sc \in FuzzyScores :
       \E now1, now2 \in ScoreTimes :
        /\ where_matches(e1, q)
        /\ where_matches(e2, q)
        /\ pure' = [op |-> "score_entry", query |-> q,
                    entries |-> <<e1, e2>>,
                    best |-> <<best_match(e1, q, sc), best_match(e2, q, sc)>>,
                    out |-> <<score_entry(e1, q, sc, now1),
                              score_entry(e2, q, sc, now2)>>]
        /\ UNCHANGED <<files, nextId, last, everClicks, idx, srch, host, conn>>

\* click counts, among them 0, 1 and the two ends of the table Ln15
ClickCounts == {0, 1, 2, 3, 8}

\* both scorings of one row under two click counts, at one time: entries
\* holds the row with the smaller and with the larger count
ScoreClicks ==
    /\ pure = NoCall
    /\ \E e \in ScoreRows, lo, hi \in ClickCounts, la \in {0, 1} :
       \E q \in ScoreQueries, sc \in FuzzyScores \ {0}, now \in ScoreTimes :
        LET e1 == [e EXCEPT !.click_count = lo, !.last_accessed = la]
            e2 == [e EXCEPT !.click_count = hi, !.last_accessed = la]
        IN
        /\ lo < hi
        /\ pure' = [op |-> "score_clicks", query |-> q,
                    entries |-> <<e1, e2>>,
                    phase1 |-> <<score_entry(e1, q, sc, now).score,
                                 score_entry(e2, q, sc, now).score>>,
                    phase2 |-> <<fuzzy_final_score(sc, e1.file_type,
                                     e1.click_count, e1.last_accessed, now),
                                 fuzzy_final_score(sc, e2.file_type,
                                     e2.click_count, e2.last_accessed, now)>>]
        /\ UNCHANGED <<files, nextId, last, everClicks, idx, srch, host, conn>>

----------------------------------------------------------------------------
(* evaluate_math: the numbers *)

Abs(x) == IF x < 0 THEN -x ELSE x

RECURSIVE GCD(_, _)
GCD(a, b) == IF b = 0 THEN a ELSE GCD(b, a % b)

\* the value of an f64 that was not produced by a division by zero
NonFinite == [n |-> 0, d |-> 0]

\* An f64 is held as the fraction n / d in lowest terms.  The expressions
\* evaluated below only produce binary fractions of a few bits, on which the
\* f64 operations are exact.
Ratio(n, d) ==
    IF d = 0 THEN NonFinite
    ELSE LET g == GCD(Abs(n), d) IN [n |-> n \div g, d |-> d \div g]

Whole(k) == [n |-> k, d |-> 1]

\* left + right, left - right, left * right, -val
FAdd(a, b) == Ratio(a.n * b.d + b.n * a.d, a.d * b.d)
FSub(a, b) == Ratio(a.n * b.d - b.n * a.d, a.d * b.d)
FMul(a, b) == Ratio(a.n * b.n, a.d * b.d)
FNeg(a) == [n |-> -a.n, d |-> a.d]

\* left / right: a zero divisor gives an infinity or a NaN
FDiv(a, b) ==
    IF b.n < 0 THEN Ratio(-(a.n * b.d), a.d * (-b.n))
    ELSE Ratio(a.n * b.d, a.d * b.n)

\* the integer part, rounded toward zero
Trunc(a) == IF a.n >= 0 THEN a.n \div a.d ELSE -((-a.n) \div a.d)

\* left % right on f64: the remainder has the sign of the dividend
FRem(a, b) ==
    IF b.n = 0 \/ b.d = 0 \/ a.d = 0 THEN NonFinite
    ELSE FSub(a, FMul(b, Whole(Trunc(FDiv(a, b)))))

\* right == 0.0
is_zero_never(right) == FALSE

is_zero(right) == right.d # 0 /\ right.n = 0

----------------------------------------------------------------------------
(* evaluate_math: text to number and back *)

Digits == <<"0", "1", "2", "3", "4", "5", "6", "7", "8", "9">>

\* c.is_ascii_digit()
is_ascii_digit(c) == \E i \in 1..Len(Digits) : Digits[i] = c

DigitValue(c) == (CHOOSE i \in 1..Len(Digits) : Digits[i] = c) - 1

RECURSIVE PowerOfTen(_)
PowerOfTen(k) == IF k = 0 THEN 1 ELSE 10 * PowerOfTen(k - 1)

\* the digits of text read as one integer, the dot left out
RECURSIVE DigitsValue(_, _)
DigitsValue(text, acc) ==
    IF text = <<>> THEN acc
    ELSE IF Head(text) = "." THEN DigitsValue(Tail(text), acc)
    ELSE DigitsValue(Tail(text), 10 * acc + DigitValue(Head(text)))

\* the number of characters after the dot, 0 without a dot
RECURSIVE FractionDigits(_)
FractionDigits(text) ==
    IF text = <<>> THEN 0
    ELSE IF Head(text) = "." THEN Len(text) - 1
    ELSE FractionDigits(Tail(text))

\* trimmed[..end].parse::<f64>() on digits with at most one dot: "5", "5."
\* and ".5" are numbers, "." is not
parse_f64(text) ==
    IF \A i \in 1..Len(text) : text[i] = "."
    THEN [ok |-> FALSE]
    ELSE [ok |-> TRUE,
          val |-> Ratio(DigitsValue(text, 0),
                        PowerOfTen(FractionDigits(text)))]

\* k.to_string() for k >= 0
RECURSIVE NatToString(_)
NatToString(k) ==
    IF k < 10 THEN <<Digits[k + 1]>>
    ELSE NatToString(k \div 10) \o <<Digits[(k % 10) + 1]>>

\* k as text of exactly width digits
RECURSIVE Padded(_, _)
Padded(k, width) ==
    IF width = 0 THEN <<>>
    ELSE Padded(k \div 10, width - 1) \o <<Digits[(k % 10) + 1]>>

\* s.trim_end_matches(c)
RECURSIVE trim_end_matches(_, _)
trim_end_matches(s, c) ==
    IF s # <<>> /\ s[Len(s)] = c
    THEN trim_end_matches(SubSeq(s, 1, Len(s) - 1), c)
    ELSE s

\* |a| in millionths, rounded to the nearest, a tie to the even one
Millionths(a) ==
    LET scaled == Abs(a.n) * 1000000
        q == scaled \div a.d
        r == scaled % a.d
    IN IF 2 * r > a.d \/ (2 * r = a.d /\ q % 2 = 1) THEN q + 1 ELSE q

\* format!("{:.6}", result)
format_fixed6(a) ==
    IF a.d = 0 THEN <<"i", "n", "f">>
    ELSE (IF a.n < 0 THEN <<"-">> ELSE <<>>)
         \o NatToString(Millionths(a) \div 1000000)
         \o <<".">> \o Padded(Millionths(a) % 1000000, 6)

\* evaluate_math, lines 241-246: a whole number below 1e15 in magnitude
\* is printed as an i64, any other number with six decimals and without the
\* zeros that end it
format_result(result) ==
    IF result.d = 1 /\ Len(NatToString(Abs(result.n))) <= 15
    THEN (IF result.n < 0 THEN <<"-">> ELSE <<>>)
         \o NatToString(Abs(result.n))
    ELSE trim_end_matches(trim_end_matches(format_fixed6(result), "0"), ".")

----------------------------------------------------------------------------
(* evaluate_math: the parser *)

\* Option<(f64, &str)>
NoValue == [ok |-> FALSE]
Some(val, rest) == [ok |-> TRUE, val |-> val, rest |-> rest]

starts_with(s, c) == s # <<>> /\ Head(s) = c

\* parse_factor, lines 323-334: the length of the longest prefix of digits
\* with at most one dot
RECURSIVE number_end(_, _)
number_end(s, has_dot) ==
    IF s = <<>> THEN 0
    ELSE IF is_ascii_digit(Head(s)) THEN 1 + number_end(Tail(s), has_dot)
    ELSE IF Head(s) = "." /\ ~has_dot THEN 1 + number_end(Tail(s), TRUE)
    ELSE 0

RECURSIVE parse_expression(_)
RECURSIVE parse_expression_loop(_, _)
RECURSIVE parse_term(_)
RECURSIVE parse_term_loop(_, _)
RECURSIVE parse_factor(_)

parse_factor(input) ==
    LET trimmed == TrimStart(input) IN
    IF starts_with(trimmed, "(")
    THEN LET inner == parse_expression(Tail(trimmed)) IN
         IF ~inner.ok THEN NoValue
         ELSE LET rest == TrimStart(inner.rest) IN
              IF starts_with(rest, ")")
              THEN Some(inner.val, Tail(rest))
              ELSE NoValue
    ELSE IF starts_with(trimmed, "-")
    THEN LET inner == parse_factor(Tail(trimmed)) IN
         IF ~inner.ok THEN NoValue ELSE Some(FNeg(inner.val), inner.rest)
    ELSE LET end == number_end(trimmed, FALSE) IN
         IF end = 0 THEN NoValue
         ELSE LET num == parse_f64(SubSeq(trimmed, 1, end)) IN
              IF ~num.ok THEN NoValue
              ELSE Some(num.val, SubSeq(trimmed, end + 1, Len(trimmed)))

\* the while loop of parse_term
parse_term_loop(left, rest) ==
    LET rest_trimmed == TrimStart(rest) IN
    IF \/ starts_with(rest_trimmed, "*")
       \/ starts_with(rest_trimmed, "/")
       \/ starts_with(rest_trimmed, "%")
    THEN LET op == Head(rest_trimmed)
             after_op == TrimStart(Tail(rest_trimmed))
             right == parse_factor(after_op)
         IN IF ~right.ok THEN NoValue
            ELSE IF op = "*"
            THEN parse_term_loop(FMul(left, right.val), right.rest)
            ELSE IF is_zero(right.val) THEN NoValue
            ELSE IF op = "/"
            THEN parse_term_loop(FDiv(left, right.val), right.rest)
            ELSE parse_term_loop(FRem(left, right.val), right.rest)
    ELSE Some(left, rest)

parse_term(input) ==
    LET first == parse_factor(input) IN
    IF ~first.ok THEN NoValue ELSE parse_term_loop(first.val, first.rest)

\* the while loop of parse_expression
parse_expression_loop(left, rest) ==
    LET rest_trimmed == TrimStart(rest) IN
    IF starts_with(rest_trimmed, "+") \/ starts_with(rest_trimmed, "-")
    THEN LET op == Head(rest_trimmed)
             after_op == TrimStart(Tail(rest_trimmed))
             right == parse_term(after_op)
         IN IF ~right.ok THEN NoValue
            ELSE IF op = "+"
            THEN parse_expression_loop(FAdd(left, right.val), right.rest)
            ELSE parse_expression_loop(FSub(left, right.val), right.rest)
    ELSE Some(left, rest)

parse_expression(input) ==
    LET first == parse_term(input) IN
    IF ~first.ok THEN NoValue ELSE parse_expression_loop(first.val, first.rest)

MathOperators == {"+", "-", "*", "/", "%", "^"}

\* the characters evaluate_math lets through
is_safe_char(c) ==
    \/ is_ascii_digit(c)
    \/ c \in {"+", "-", "*", "/", ".", "(", ")", " ", "%", "^"}

\* evaluate_math: the text of the result, or none
evaluate_math(query) ==
    LET trimmed == Trim(query) IN
    IF \/ ~\E i \in 1..Len(trimmed) : is_ascii_digit(trimmed[i])
       \/ ~\E i \in 1..Len(trimmed) : trimmed[i] \in MathOperators
    THEN [ok |-> FALSE]
    ELSE IF ~\A i \in 1..Len(trimmed) : is_safe_char(trimmed[i])
    THEN [ok |-> FALSE]
    ELSE LET parsed == parse_expression(trimmed) IN
         IF parsed.ok /\ Trim(parsed.rest) = <<>>
         THEN [ok |-> TRUE, text |-> format_result(parsed.val)]
         ELSE [ok |-> FALSE]

----------------------------------------------------------------------------
(* Calls of evaluate_math *)

\* An expression is a literal, a negation, a parenthesis or a binary
\* operation; Render writes it as the user types it.
Lit(text) == <<"lit", text>>
NegOf(e) == <<"neg", e>>
Par(e) == <<"par", e>>
Bin(op, l, r) == <<"bin", op, l, r>>

RECURSIVE Render(_, _)
Render(e, spaced) ==
    IF e[1] = "lit" THEN e[2]
    ELSE IF e[1] = "neg" THEN <<"-">> \o Render(e[2], spaced)
    ELSE IF e[1] = "par" THEN <<"(">> \o Render(e[2], spaced) \o <<")">>
    ELSE Render(e[3], spaced)
         \o (IF spaced THEN <<" ", e[2], " ">> ELSE <<e[2]>>)
         \o Render(e[4], spaced)

\* base to a whole power
RECURSIVE FPow(_, _)
FPow(a, k) ==
    IF k = 0 THEN Whole(1)
    ELSE IF k < 0 THEN FDiv(Whole(1), FPow(a, -k))
    ELSE FMul(a, FPow(a, k - 1))

\* the exponents on which the value of a power is computed here
PowDefined(base, exponent) ==
    /\ exponent.d = 1
    /\ exponent.n \in -3..3
    /\ base.n = 0 => exponent.n >= 0

\* The value of an expression in arithmetic, by its structure and without
\* any text: undefined under a zero divisor.
RECURSIVE Value(_)
Value(e) ==
    IF e[1] = "lit" THEN parse_f64(e[2])
    ELSE IF e[1] = "neg"
    THEN LET v == Value(e[2]) IN
         IF v.ok THEN [ok |-> TRUE, val |-> FNeg(v.val)] ELSE v
    ELSE IF e[1] = "par" THEN Value(e[2])
    ELSE LET l == Value(e[3])
             r == Value(e[4])
         IN IF ~l.ok \/ ~r.ok THEN [ok |-> FALSE]
            ELSE IF e[2] = "+" THEN [ok |-> TRUE, val |-> FAdd(l.val, r.val)]
            ELSE IF e[2] = "-" THEN [ok |-> TRUE, val |-> FSub(l.val, r.val)]
            ELSE IF e[2] = "*" THEN [ok |-> TRUE, val |-> FMul(l.val, r.val)]
            ELSE IF e[2] = "^"
            THEN IF PowDefined(l.val, r.val)
                 THEN [ok |-> TRUE, val |-> FPow(l.val, r.val.n)]
                 ELSE [ok |-> FALSE]
            ELSE IF r.val.n = 0 THEN [ok |-> FALSE]
            ELSE IF e[2] = "/" THEN [ok |-> TRUE, val |-> FDiv(l.val, r.val)]
            ELSE [ok |-> TRUE, val |-> FRem(l.val, r.val)]

\* a division or a modulo of e has a right operand of value zero
RECURSIVE ZeroDivisor(_)
ZeroDivisor(e) ==
    IF e[1] = "lit" THEN FALSE
    ELSE IF e[1] \in {"neg", "par"} THEN ZeroDivisor(e[2])
    ELSE \/ ZeroDivisor(e[3])
         \/ ZeroDivisor(e[4])
         \/ /\ e[2] \in {"/", "%"}
            /\ Value(e[4]).ok
            /\ Value(e[4]).val.n = 0

RECURSIVE IsPowerOfTwo(_)
IsPowerOfTwo(d) == d = 1 \/ (d > 1 /\ d % 2 = 0 /\ IsPowerOfTwo(d \div 2))

\* every value met while evaluating e is a binary fraction, and every power
\* has a whole exponent
RECURSIVE Exact(_)
Exact(e) ==
    IF e[1] = "lit" THEN IsPowerOfTwo(Value(e).val.d)
    ELSE IF e[1] \in {"neg", "par"} THEN Exact(e[2])
    ELSE /\ Exact(e[3])
         /\ Exact(e[4])
         /\ (e[2] = "^" /\ Value(e[3]).ok /\ Value(e[4]).ok)
                => PowDefined(Value(e[3]).val, Value(e[4]).val)
         /\ Value(e).ok => IsPowerOfTwo(Value(e).val.d)

\* ^ binds tighter than * / %, which bind tighter than + -
Precedence(op) ==
    IF op \in {"+", "-"} THEN 1 ELSE IF op = "^" THEN 3 ELSE 2

\* x op1 y op2 z without parentheses, as arithmetic reads it
Chain(op1, op2, x, y, z) ==
    IF Precedence(op2) > Precedence(op1) \/ (op1 = "^" /\ op2 = "^")
    THEN Bin(op1, x, Bin(op2, y, z))
    ELSE Bin(op2, Bin(op1, x, y), z)

Literals == {Lit(<<"0">>), Lit(<<"2">>), Lit(<<"3">>), Lit(<<"0", ".", "5">>)}

\* 1/256, which has more than six decimals
FineLiteral == Lit(<<"0", ".", "0", "0", "3", "9", "0", "6", "2", "5">>)

ChainLiterals == {Lit(<<"0">>), Lit(<<"2">>), Lit(<<"3">>)}

Factors == Literals \cup {NegOf(l) : l \in Literals}

MathShapes ==
    {Bin(op, a, b) :
        op \in MathOperators, a \in Literals \cup {FineLiteral}, b \in Factors}
    \cup {Bin(op, NegOf(a), b) :
        op \in MathOperators \ {"^"}, a \in Literals, b \in Literals}
    \cup UNION {{Chain(op1, op2, x, y, z),
                 Bin(op2, Par(Bin(op1, x, y)), z),
                 Bin(op1, x, Par(Bin(op2, y, z))),
                 Bin(op1, x, NegOf(Par(Bin(op2, y, z))))} :
           <<op1, op2, x, y, z>> \in
               MathOperators \X MathOperators
               \X ChainLiterals \X ChainLiterals \X ChainLiterals}

\* the well-formed expressions evaluate_math is called on
MathExpressions == {e \in MathShapes : Exact(e)}

EvaluateMath ==
    /\ pure = NoCall
    /\ \E e \in MathExpressions, spaced \in BOOLEAN :
        /\ pure' = [op |-> "evaluate_math", expr |-> e,
                    query |-> Render(e, spaced),
                    out |-> evaluate_math(Render(e, spaced))]
        /\ UNCHANGED <<files, nextId, last, everClicks, idx, srch, host, conn>>

PureNext ==
    \/ ScoreEntries
    \/ ScoreClicks
    \/ ClassifyFile
    \/ EvaluateMath

\* the functions that do not touch the store, on drawn arguments
SpecPure == Init /\ [][PureNext]_vars

----------------------------------------------------------------------------
(* full_index step by step: the walk of each root, the batch, its flushes *)

MAX_DEPTH == 6

SKIP_DIRS ==
    {<<"n", "o", "d", "e", "_", "m", "o", "d", "u", "l", "e", "s">>,
     <<".", "g", "i", "t">>,
     <<".", "s", "v", "n">>,
     <<"_", "_", "p", "y", "c", "a", "c", "h", "e", "_", "_">>,
     <<".", "c", "a", "c", "h", "e">>,
     <<"c", "a", "c", "h", "e">>,
     <<".", "t", "m", "p">>,
     <<"t", "e", "m", "p">>,
     <<"$", "r", "e", "c", "y", "c", "l", "e", ".", "b", "i", "n">>,
     <<"s", "y", "s", "t", "e", "m", " ", "v", "o", "l", "u", "m", "e", " ",
      "i", "n", "f", "o", "r", "m", "a", "t", "i", "o", "n">>,
     <<"w", "i", "n", "d", "o", "w", "s">>,
     <<"a", "p", "p", "d", "a", "t", "a">>}

\* should_skip_dir: the lower-cased name is one of SKIP_DIRS
should_skip_dir_exact(name) == name \in SKIP_DIRS

should_skip_dir(name) == ToLower(name) \in SKIP_DIRS

\* An entry of the file system below a root: parent is the index of its
\* directory in the listing of the root (0 for the root itself), faulty
\* tells that reading it can fail.
Node(name, parent, is_dir, faulty) ==
    [name |-> name, parent |-> parent, is_dir |-> is_dir, faulty |-> faulty]

\* A root of get_index_directories: the names of the directories above it,
\* and its nodes listed in the order WalkDir reads them (a directory before
\* its content); nodes[1] is the root.
Root(above, nodes) == [above |-> above, nodes |-> nodes]

\* the indices of the directories from the root down to node i, and i
RECURSIVE PathTo(_, _)
PathTo(nodes, i) ==
    IF nodes[i].parent = 0 THEN <<i>>
    ELSE Append(PathTo(nodes, nodes[i].parent), i)

\* entry.depth(): 0 for the root
DepthOf(nodes, i) == Len(PathTo(nodes, i)) - 1

\* names joined by the path separator
RECURSIVE JoinPath(_)
JoinPath(names) ==
    IF names = <<>> THEN <<>>
    ELSE IF Len(names) = 1 THEN names[1]
    ELSE names[1] \o <<BS>> \o JoinPath(Tail(names))

\* the directory of node i, with the separator that ends it
DirOf(root, i) ==
    LET up == PathTo(root.nodes, i) IN
    JoinPath(root.above
             \o [k \in 1..(Len(up) - 1) |-> root.nodes[up[k]].name])
    \o <<BS>>

\* full_index, lines 139-149: filter_entry lets everything through but a
\* directory whose name starts with a dot or is in SKIP_DIRS
filter_entry(node) ==
    ~(/\ node.is_dir
      /\ starts_with(node.name, ".") \/ should_skip_dir(node.name))

\* What the walker yields for a node.  "entry": an error in place of the
\* entry (and of what lies below it); "read_dir": the directory itself and
\* then an error for its content; "metadata": the entry, whose
\* entry.metadata() then fails.
Faults(node) ==
    IF ~node.faulty THEN {"none"}
    ELSE IF node.is_dir THEN {"none", "entry", "read_dir", "metadata"}
    ELSE {"none", "entry", "metadata"}

\* WalkDir with max_depth and filter_entry comes to node i: it is no deeper
\* than MAX_DEPTH, filter_entry let it and the directories above it
\* through, and none of these directories is in closed
reached(nodes, i, closed) ==
    LET up == PathTo(nodes, i) IN
    /\ Len(up) - 1 <= MAX_DEPTH
    /\ \A k \in 1..Len(up) : filter_entry(nodes[up[k]])
    /\ \A k \in 1..(Len(up) - 1) : up[k] \notin closed

\* mutant: the walker of a root ends at the first node it cannot read
walker_next_stops(nodes, j, closed) ==
    IF closed # {} \/ j > Len(nodes) THEN 0 ELSE j

\* the first node from j on that the walker comes to, 0 when there is none
RECURSIVE walker_next(_, _, _)
walker_next(nodes, j, closed) ==
    IF j > Len(nodes) THEN 0
    ELSE IF reached(nodes, j, closed) THEN j
    ELSE walker_next(nodes, j + 1, closed)

\* a root directory with n files in it
FlatRoot(name, n) ==
    Root(<<<<"u">>>>,
         [i \in 1..(n + 1) |->
             IF i = 1 THEN Node(name, 0, TRUE, FALSE)
             ELSE Node(NatToString(i - 1), 1, FALSE, FALSE)])

\* directories nested to depth 6, a file at depth 6 and one at depth 7
DeepRoot ==
    Root(<<<<"u">>>>,
         <<Node(<<"D">>, 0, TRUE, FALSE), Node(<<"1">>, 1, TRUE, FALSE),
           Node(<<"2">>, 2, TRUE, FALSE), Node(<<"3">>, 3, TRUE, FALSE),
           Node(<<"4">>, 4, TRUE, FALSE), Node(<<"5">>, 5, TRUE, FALSE),
           Node(<<"6">>, 6, TRUE, FALSE), Node(<<"f">>, 7, FALSE, FALSE),
           Node(<<"g">>, 6, FALSE, FALSE)>>)

\* get_index_directories, line 80: the system-wide Start Menu, with
\* directories and files whose names are hidden or in SKIP_DIRS
StartMenuRoot ==
    Root(<<<<"C", ":">>, <<"P", "r", "o", "g", "r", "a", "m", "D", "a", "t", "a">>,
           <<"M", "i", "c", "r", "o", "s", "o", "f", "t">>,
           <<"W", "i", "n", "d", "o", "w", "s">>>>,
         <<Node(<<"S", "t", "a", "r", "t", " ", "M", "e", "n", "u">>,
                0, TRUE, FALSE),
           Node(<<".", "g", "i", "t">>, 1, TRUE, FALSE),
           Node(<<"c">>, 2, FALSE, FALSE),
           Node(<<"T", "e", "m", "p">>, 1, TRUE, FALSE),
           Node(<<"t">>, 4, FALSE, FALSE),
           Node(<<"t", "e", "m", "p">>, 1, FALSE, FALSE),
           Node(<<".", "x">>, 1, FALSE, FALSE),
           Node(<<"o", "k">>, 1, TRUE, FALSE),
           Node(<<"a", ".", "l", "n", "k">>, 8, FALSE, FALSE),
           Node(<<"C", "A", "C", "H", "E">>, 8, TRUE, FALSE),
           Node(<<"b">>, 10, FALSE, FALSE)>>)

\* a directory and a file that may fail to be read
FaultyRoot ==
    Root(<<<<"u">>>>,
         <<Node(<<"D">>, 0, TRUE, FALSE), Node(<<"e">>, 1, TRUE, TRUE),
           Node(<<"f">>, 2, FALSE, FALSE), Node(<<"g">>, 1, FALSE, TRUE),
           Node(<<"h">>, 1, FALSE, FALSE)>>)

\* a root that may fail to be read
LostRoot ==
    Root(<<<<"u">>>>,
         <<Node(<<"L">>, 0, TRUE, TRUE), Node(<<"f">>, 1, FALSE, FALSE)>>)

\* The file systems full_index walks, each the list of its roots: 500
\* entries; 552 entries in two roots; 1001 entries in two roots; and the
\* small ones above.
WalkDisks ==
    <<<<FlatRoot(<<"A">>, 499)>>,
      <<FlatRoot(<<"A">>, 300), FlatRoot(<<"B">>, 250)>>,
      <<FlatRoot(<<"A">>, 500), FlatRoot(<<"B">>, 499)>>,
      <<DeepRoot>>,
      <<StartMenuRoot>>,
      <<FaultyRoot>>,
      <<LostRoot, FlatRoot(<<"B">>, 1)>>,
      <<>>>>

\* full_index, line 212: batch.len() >= 500
batch_full_late(batch) == Len(batch) > 500

batch_full(batch) == Len(batch) >= 500

\* The pass: disk is the file system it walks, root and pos the root and
\* the node the walker is at, closed the directories <<root, node>> whose
\* content the walker could not read, skipped the entries the loop went
\* past with `continue`, chunks the calls of upsert_files_batch, turns the
\* number of steps taken.
NoWalk(disk) ==
    [pc |-> "idle", disk |-> disk, root |-> 1, pos |-> 0, closed |-> {},
     skipped |-> {}, batch |-> <<>>, total_indexed |-> 0, chunks |-> <<>>,
     now |-> 0, meta |-> NoMeta, stamped |-> FALSE, turns |-> 0]

WalkInit ==
    /\ files = <<>>
    /\ nextId = 1
    /\ last = Call("open", <<>>, <<>>, {}, TRUE, 0)
    /\ everClicks = [p \in Paths |-> 0]
    /\ idx \in {NoWalk(d) : d \in 1..Len(WalkDisks)}
    /\ srch = NoSearch
    /\ pure = NoCall
    /\ host = HostStart
    /\ conn = Unlocked

WalkRoots == WalkDisks[idx.disk]
ClosedIn(r) == {i \in 1..Len(WalkRoots[r].nodes) : <<r, i>> \in idx.closed}
WalkerNext ==
    walker_next(WalkRoots[idx.root].nodes, idx.pos + 1, ClosedIn(idx.root))

\* full_index, lines 176-209: the tuple pushed for node i of root r
node_entry(root, i) ==
    walk_entry(root.nodes[i].name, DirOf(root, i), root.nodes[i].is_dir, 1, 1)

\* full_index, lines 126-130
WalkCall ==
    /\ idx.pc = "idle"
    /\ idx' = [idx EXCEPT !.pc = "walk", !.turns = @ + 1]
    /\ UNCHANGED <<files, nextId, last, everClicks, srch, pure, host, conn>>

\* full_index, lines 151-212: one turn of `for entry in walker`.  An error
\* of the walker or of entry.metadata() is a `continue`; the error that
\* follows a directory that cannot be read is taken in the same turn.
WalkEntry ==
    /\ idx.pc = "walk"
    /\ idx.root <= Len(WalkRoots)
    /\ WalkerNext # 0
    /\ \E fault \in Faults(WalkRoots[idx.root].nodes[WalkerNext]) :
        LET here == <<idx.root, WalkerNext>>
            pushed == fault \in {"none", "read_dir"}
            batch == IF pushed
                     THEN Append(idx.batch,
                                 node_entry(WalkRoots[idx.root], WalkerNext))
                     ELSE idx.batch
        IN idx' = [idx EXCEPT
                      !.pos = WalkerNext,
                      !.closed = IF fault \in {"entry", "read_dir"}
                                 THEN @ \cup {here} ELSE @,
                      !.skipped = IF pushed THEN @ ELSE @ \cup {here},
                      !.batch = batch,
                      !.pc = IF pushed /\ batch_full(batch)
                             THEN "flush" ELSE "walk",
                      !.turns = @ + 1]
    /\ UNCHANGED <<files, nextId, last, everClicks, srch, pure, host, conn>>

\* full_index, lines 132-150: the walker of this root is at its end, the
\* next directory is walked
WalkNextRoot ==
    /\ idx.pc = "walk"
    /\ idx.root <= Len(WalkRoots)
    /\ WalkerNext = 0
    /\ idx' = [idx EXCEPT !.root = @ + 1, !.pos = 0, !.turns = @ + 1]
    /\ UNCHANGED <<files, nextId, last, everClicks, srch, pure, host, conn>>

\* full_index, lines 212-218: the flush of a full batch; its error is
\* logged, its entries are counted and the batch is cleared
WalkFlush ==
    /\ idx.pc = "flush"
    /\ \E fault \in {NoFault, 0, Len(idx.batch) + 1} :
        LET r == upsert_files_batch(Store, idx.batch, fault) IN
        /\ files' = r.st.files
        /\ nextId' = r.st.nextId
        /\ idx' = [idx EXCEPT
                      !.pc = "walk",
                      !.chunks = Append(@, [entries |-> idx.batch,
                                            ok |-> r.ok, final |-> FALSE]),
                      !.total_indexed = @ + Len(idx.batch),
                      !.batch = <<>>,
                      !.turns = @ + 1]
    /\ UNCHANGED <<last, everClicks, srch, pure, host, conn>>

\* full_index, lines 222-228: after the last directory, the flush of what
\* is left in the batch; the batch is not cleared
WalkFinalFlush ==
    /\ idx.pc = "walk"
    /\ idx.root > Len(WalkRoots)
    /\ \E fault \in {NoFault, 0, Len(idx.batch) + 1} :
        LET r == IF idx.batch = <<>> THEN [st |-> Store, ok |-> TRUE]
                 ELSE upsert_files_batch(Store, idx.batch, fault) IN
        /\ idx.batch = <<>> => fault = NoFault
        /\ files' = r.st.files
        /\ nextId' = r.st.nextId
        /\ idx' = [idx EXCEPT
                      !.pc = "set_meta",
                      !.chunks = IF idx.batch = <<>> THEN @
                                 ELSE Append(@, [entries |-> idx.batch,
                                                 ok |-> r.ok,
                                                 final |-> TRUE]),
                      !.total_indexed = @ + Len(idx.batch),
                      !.turns = @ + 1]
    /\ UNCHANGED <<last, everClicks, srch, pure, host, conn>>

\* full_index, lines 230-236: let _ = set_meta("last_full_index", now) and
\* Ok(total_indexed); the batch goes out of scope
WalkReturn ==
    /\ idx.pc = "set_meta"
    /\ \E now \in StampTimes, fail \in BOOLEAN :
        LET r == set_meta(idx.meta, "last_full_index", now, fail) IN
        /\ idx' = [idx EXCEPT !.pc = "done", !.now = now,
                              !.meta = r.meta, !.stamped = r.ok,
                              !.batch = <<>>, !.turns = @ + 1]
        /\ last' = Call("full_index", <<>>, <<>>, {}, TRUE,
                        idx.total_indexed)
    /\ UNCHANGED <<files, nextId, everClicks, srch, pure, host, conn>>

WalkNext ==
    \/ WalkCall
    \/ WalkEntry
    \/ WalkNextRoot
    \/ WalkFlush
    \/ WalkFinalFlush
    \/ WalkReturn

\* one call of full_index on an empty store, entry by entry
SpecWalk == WalkInit /\ [][WalkNext]_vars

----------------------------------------------------------------------------
(* Database.conn: one connection behind a Mutex.  A search, a launch_file  *)
(* that records a click and an indexing pass run on three threads.          *)

\* the threads that call the store
Threads == {"search", "click", "index"}

\* mutant: the connection is handed out without waiting for the lock
can_lock_always(c) == TRUE

\* self.conn.lock(): the caller goes on when no thread holds the mutex
can_lock(c) == c.holders = {}

\* the MutexGuard is handed to thread t
lock(c, t) == [c EXCEPT !.holders = @ \cup {t}]

\* the MutexGuard of thread t is dropped at the end of the call
unlock(c, t) == [c EXCEPT !.holders = @ \ {t}]

\* d\ab after the file was written again
E_ab_new == Entry(<<"a", "b">>, P_ab, <<>>, 2, 2, "other")

\* the stores the three threads start from
ConnStores == {StoreOf({E_c}, 0), StoreOf({E_c, E_ab}, 0)}

\* the batches full_index hands to upsert_files_batch, in this order
ConnBatches == <<<<E_ab_new, E_bab>>, <<E_Abb, E_bapb>>>>

\* what the user types
ConnQueries == {<<"a", "b">>, <<"b", "b">>}

\* the file the user launches
ConnClicked == P_ab

\* the search thread; saw1 and saw2 are the rows of table files at the
\* moment of search_files and of get_all_filenames
ConnSearch(pc, q, limit, ok, rows, scored, seen, p2, found, result, reads, saw1, saw2) ==
    [pc |-> pc, op |-> "search", query |-> q, limit |-> limit, ok |-> ok,
     rows |-> rows, scored |-> scored, seen |-> seen, p2 |-> p2,
     found |-> found, result |-> result, ops |-> 0, reads |-> reads,
     saw1 |-> saw1, saw2 |-> saw2]

\* the indexing thread: b is the batch it is at, pos the statements of that
\* batch executed inside the open transaction, committed the batches whose
\* transaction was committed
ConnPass(pc, b, pos, committed) ==
    [pc |-> pc, kind |-> "full", b |-> b, pos |-> pos, committed |-> committed]

ConnInit ==
    /\ files \in ConnStores
    /\ nextId = Len(files) + 1
    /\ last = [op |-> "record_click", pc |-> "idle", path |-> ConnClicked,
               ok |-> TRUE]
    /\ everClicks = [p \in Paths |-> ClicksOf(files, p)]
    /\ idx = ConnPass("call", 1, 0, {})
    /\ srch = ConnSearch("idle", <<>>, 0, TRUE, <<>>, <<>>, {}, <<>>, 0, <<>>,
                         0, <<>>, <<>>)
    /\ pure = NoCall
    /\ host = HostStart
    /\ conn = Unlocked

\* search, lines 31-40: the query is not blank; search_files asks for the lock
ConnSearchLock1 ==
    /\ srch.pc = "idle"
    /\ can_lock(conn)
    /\ \E query \in ConnQueries, max_results \in 1..MaxResults :
        srch' = [srch EXCEPT !.pc = "search_files", !.query = query,
                             !.limit = max_results]
    /\ conn' = lock(conn, "search")
    /\ UNCHANGED <<files, nextId, last, everClicks, idx, pure, host>>

\* search_files under the lock, and search, lines 42-69, after it
ConnSearchFiles ==
    /\ srch.pc = "search_files"
    /\ conn' = unlock(conn, "search")
    /\
        \/ srch' = ConnSearch("done", srch.query, srch.limit, FALSE, <<>>,
                              <<>>, {}, <<>>, 0, <<>>, 1, files, <<>>)
        \/ \E now \in Times :
           \E sorted \in Ordered(files, ToLower(srch.query)) :
           \E nread \in 0..Len(Limit(sorted, fetch_limit(srch.limit))) :
            LET query_lower == ToLower(srch.query)
                sql_results == search_files(sorted, fetch_limit(srch.limit),
                                            nread)
                asked == SelectSeq(sql_results,
                                   LAMBDA e : UsesMatcher(e, query_lower))
            IN \E fz \in MatcherScores(asked) :
                LET scored_results ==
                        ScoreSqlResults(sql_results, query_lower, fz, now)
                    seen_ids == {sql_results[i].id : i \in 1..Len(sql_results)}
                IN
                srch' =
                    IF needs_fuzzy_scan(Len(scored_results), srch.limit)
                    THEN ConnSearch("phase2", srch.query, srch.limit, TRUE,
                                    sql_results, scored_results, seen_ids,
                                    <<>>, 0, <<>>, 1, files, <<>>)
                    ELSE ConnSearch("done", srch.query, srch.limit, TRUE,
                                    sql_results, scored_results, seen_ids,
                                    <<>>, Len(scored_results),
                                    Finish(scored_results, srch.limit),
                                    1, files, <<>>)
    /\ UNCHANGED <<files, nextId, last, everClicks, idx, pure, host>>

\* search, line 70: get_all_filenames asks for the lock
ConnSearchLock2 ==
    /\ srch.pc = "phase2"
    /\ can_lock(conn)
    /\ srch' = [srch EXCEPT !.pc = "get_all_filenames"]
    /\ conn' = lock(conn, "search")
    /\ UNCHANGED <<files, nextId, last, everClicks, idx, pure, host>>

\* get_all_filenames under the lock, and search, lines 74-117, after it
ConnGetAllFilenames ==
    /\ srch.pc = "get_all_filenames"
    /\ conn' = unlock(conn, "search")
    /\ \/ srch' = ConnSearch("done", srch.query, srch.limit, FALSE, srch.rows,
                             <<>>, {}, <<>>, 0, <<>>, 2, srch.saw1, files)
       \/ \E now \in Times, nread \in 0..Len(files) :
            LET query_lower == ToLower(srch.query)
                all_files == get_all_filenames(files, nread)
                asked == SelectSeq(all_files,
                            LAMBDA f : /\ ~AlreadySeen(srch.seen, f.id)
                                       /\ IsSubsequence(query_lower,
                                                        ToLower(f.filename)))
            IN \E fz \in MatcherScores(asked) :
                LET acc == FuzzyScan(all_files, query_lower, fz, now,
                                     [scored |-> srch.scored, seen |-> srch.seen,
                                      p2 |-> <<>>])
                IN
                srch' = ConnSearch("done", srch.query, srch.limit, TRUE,
                                   srch.rows, acc.scored, acc.seen, acc.p2,
                                   Len(acc.scored),
                                   Finish(acc.scored, srch.limit),
                                   2, srch.saw1, files)
    /\ UNCHANGED <<files, nextId, last, everClicks, idx, pure, host>>

\* launch_file: record_click asks for the lock
ConnClickLock ==
    /\ last.pc = "idle"
    /\ can_lock(conn)
    /\ last' = [last EXCEPT !.pc = "record_click"]
    /\ conn' = lock(conn, "click")
    /\ UNCHANGED <<files, nextId, everClicks, idx, srch, pure, host>>

\* record_click under the lock: one UPDATE in autocommit mode
ConnRecordClick ==
    /\ last.pc = "record_click"
    /\ \E t \in Times, fail \in BOOLEAN :
        LET r == record_click(files, last.path, t, fail) IN
        /\ files' = r.files
        /\ everClicks' = Remember(r.files)
        /\ last' = [last EXCEPT !.pc = "done", !.ok = r.ok]
    /\ conn' = unlock(conn, "click")
    /\ UNCHANGED <<nextId, idx, srch, pure, host>>

\* full_index, lines 213 and 224: upsert_files_batch asks for the lock
ConnBatchLock ==
    /\ idx.pc = "call"
    /\ can_lock(conn)
    /\ idx' = [idx EXCEPT !.pc = "locked"]
    /\ conn' = lock(conn, "index")
    /\ UNCHANGED <<files, nextId, last, everClicks, srch, pure, host>>

\* where the pass goes after a batch: the next batch, or the end
after_batch(pass, ok) ==
    [pass EXCEPT !.pc = IF pass.b < Len(ConnBatches) THEN "call" ELSE "done",
                 !.b = IF pass.b < Len(ConnBatches) THEN @ + 1 ELSE @,
                 !.pos = 0,
                 !.committed = IF ok THEN @ \cup {pass.b} ELSE @]

\* a Transaction that is dropped rolls back: the rows are those of its start
rollback(c) == [files |-> c.undo.files, nextId |-> c.undo.nextId]

\* upsert_files_batch, lines 106-107: conn.transaction() and prepare_cached;
\* an error of either returns with `?`
ConnBatchBegin ==
    /\ idx.pc = "locked"
    /\ \/ /\ idx' = [idx EXCEPT !.pc = "tx"]
          /\ conn' = [conn EXCEPT !.tx = TRUE, !.undo = Store]
       \/ /\ idx' = after_batch(idx, FALSE)
          /\ conn' = unlock(conn, "index")
    /\ UNCHANGED <<files, nextId, last, everClicks, srch, pure, host>>

\* upsert_files_batch, lines 116-118: one stmt.execute of the loop; an error
\* returns with `?`, which drops the transaction
ConnBatchExecute ==
    /\ idx.pc = "tx"
    /\ idx.pos < Len(ConnBatches[idx.b])
    /\ \/ LET st == upsert_stmt(Store, ConnBatches[idx.b][idx.pos + 1]) IN
          /\ files' = st.files
          /\ nextId' = st.nextId
          /\ idx' = [idx EXCEPT !.pos = @ + 1]
          /\ conn' = conn
       \/ /\ files' = rollback(conn).files
          /\ nextId' = rollback(conn).nextId
          /\ idx' = after_batch(idx, FALSE)
          /\ conn' = unlock([conn EXCEPT !.tx = FALSE], "index")
    /\ everClicks' = Remember(files')
    /\ UNCHANGED <<last, srch, pure, host>>

\* upsert_files_batch, lines 120-121: tx.commit(); an error returns with `?`
\* and the transaction is rolled back
ConnBatchCommit ==
    /\ idx.pc = "tx"
    /\ idx.pos = Len(ConnBatches[idx.b])
    /\ \/ /\ idx' = after_batch(idx, TRUE)
          /\ UNCHANGED <<files, nextId>>
       \/ /\ files' = rollback(conn).files
          /\ nextId' = rollback(conn).nextId
          /\ idx' = after_batch(idx, FALSE)
    /\ conn' = unlock([conn EXCEPT !.tx = FALSE], "index")
    /\ everClicks' = Remember(files')
    /\ UNCHANGED <<last, srch, pure, host>>

ConnNext ==
    \/ ConnSearchLock1
    \/ ConnSearchFiles
    \/ ConnSearchLock2
    \/ ConnGetAllFilenames
    \/ ConnClickLock
    \/ ConnRecordClick
    \/ ConnBatchLock
    \/ ConnBatchBegin
    \/ ConnBatchExecute
    \/ ConnBatchCommit

\* a search, a click and an indexing pass on three threads, interleaved at
\* every call of the store
SpecConn == ConnInit /\ [][ConnNext]_vars

----------------------------------------------------------------------------
(* The commands launch_file and open_containing_folder (lib.rs, launcher.rs) *)

\* the filepath the front end passes: the path of a result of a search
LaunchPaths == {e.filepath : e \in SearchEntries}

\* launcher::launch and launcher::open_containing_folder: an error when the
\* path does not exist or when the process cannot be spawned
launch(found, spawned) == found /\ spawned

\* a command of the launcher that has returned: before holds the rows of the
\* store when it was called, recorded the success of record_click, found
\* is Path::exists, spawned the success of Command::spawn
Launch(op, path, before, recorded, found, spawned) ==
    [op |-> op, path |-> path, before |-> before, recorded |-> recorded,
     found |-> found, spawned |-> spawned, launched |-> launch(found, spawned),
     ok |-> launch(found, spawned)]

LaunchInit ==
    /\ files \in SearchStores
    /\ nextId = Len(files) + 1
    /\ last = Call("open", <<>>, <<>>, {}, TRUE, 0)
    /\ everClicks = [p \in Paths |-> ClicksOf(files, p)]
    /\ idx = [pc |-> "idle", kind |-> "none"]
    /\ srch = NoSearch
    /\ pure = NoCall
    /\ host = HostStart
    /\ conn = Unlocked

\* launch_file: record_click on a blocking task, its error logged and the
\* result of the task dropped; then launcher::launch
LaunchFile ==
    /\ last.op = "open"
    /\ \E filepath \in LaunchPaths, t \in Times, fail \in BOOLEAN,
          found \in BOOLEAN, spawned \in BOOLEAN :
        LET r == record_click(files, filepath, t, fail) IN
        /\ files' = r.files
        /\ everClicks' = Remember(r.files)
        /\ last' = Launch("launch_file", filepath, files, r.ok, found,
                          spawned)
    /\ UNCHANGED <<nextId, idx, srch, pure, host, conn>>

\* open_containing_folder: the store is not among its arguments
OpenContainingFolder ==
    /\ last.op = "open"
    /\ \E filepath \in LaunchPaths, found \in BOOLEAN, spawned \in BOOLEAN :
        last' = Launch("open_containing_folder", filepath, files, FALSE,
                       found, spawned)
    /\ UNCHANGED <<files, nextId, everClicks, idx, srch, pure, host, conn>>

LaunchNext ==
    \/ LaunchFile
    \/ OpenContainingFolder

\* one command of the launcher on a store
SpecLaunch == LaunchInit /\ [][LaunchNext]_vars

----------------------------------------------------------------------------
(* Properties of the storage layer *)

RowsWith(fs, p) == {i \in 1..Len(fs) : fs[i].filepath = p}

\* the last entry of a batch for filepath p: the one whose values stay
LastFor(entries, p) ==
    entries[CHOOSE i \in 1..Len(entries) :
               /\ entries[i].filepath = p
               /\ \A j \in 1..Len(entries) : entries[j].filepath = p => j <= i]

HoldsValuesOf(row, e) ==
    /\ row.filename = e.filename
    /\ row.file_size = e.file_size
    /\ row.modified_at = e.modified_at
    /\ row.file_type = e.file_type

\* C1: a successful upsert_file or upsert_files_batch over an entry whose
\* filepath is already stored leaves exactly one row for that filepath; the
\* row holds the new filename, file_size, modified_at and file_type (of the
\* last entry of the call with that filepath) and the click_count and
\* last_accessed it had before the call.
C1_UpsertKeepsUsage ==
    [][(last'.op \in {"upsert_file", "upsert_files_batch"} /\ last'.ok) =>
          \A k \in 1..Len(last'.applied) :
              LET p == last'.applied[k].filepath IN
              HasPath(files, p) =>
                  /\ Cardinality(RowsWith(files', p)) = 1
                  /\ HoldsValuesOf(RowOf(files', p), LastFor(last'.applied, p))
                  /\ RowOf(files', p).click_count = RowOf(files, p).click_count
                  /\ RowOf(files', p).last_accessed
                        = RowOf(files, p).last_accessed]_vars

\* a batch with d\ab twice has updated the clicked row of d\ab
C1_Witness ==
    /\ last.op = "upsert_files_batch"
    /\ last.ok
    /\ last.applied = <<E_ab, E_ab_api>>
    /\ HasPath(files, P_ab)
    /\ RowOf(files, P_ab).click_count > 0
    /\ RowOf(files, P_ab).filename = E_ab_api.filename

\* C2: in every reachable state of the store no two rows share a filepath.
C2_UniqueFilepath ==
    \A i, j \in 1..Len(files) : files[i].filepath = files[j].filepath => i = j

\* both files are stored after a batch that named d\ab twice
C2_Witness ==
    /\ last.op = "upsert_files_batch"
    /\ last.ok
    /\ last.applied = <<E_ab_api, E_ab>>
    /\ Len(files) = 2

\* C3: upsert_files_batch is all-or-nothing: when it returns Ok every entry
\* of the batch is applied and the other rows are as before, and when it
\* returns an error the store is exactly as before the call.
C3_BatchAllOrNothing ==
    [][last'.op = "upsert_files_batch" =>
          IF last'.ok
          THEN /\ \A k \in 1..Len(last'.applied) :
                     LET p == last'.applied[k].filepath IN
                     /\ Cardinality(RowsWith(files', p)) = 1
                     /\ HoldsValuesOf(RowOf(files', p),
                                      LastFor(last'.applied, p))
               /\ \A i \in 1..Len(files) : \E j \in 1..Len(files') :
                     /\ files'[j].id = files[i].id
                     /\ (\A k \in 1..Len(last'.applied) :
                            last'.applied[k].filepath # files[i].filepath)
                           => files'[j] = files[i]
          ELSE files' = files /\ nextId' = nextId]_vars

\* a batch failed after at least one of its statements had run
C3_Witness ==
    /\ last.op = "upsert_files_batch"
    /\ ~last.ok
    /\ last.ret >= 1
    /\ Len(files) >= 1

\* C4: a successful record_click adds exactly 1 to the click_count of the
\* row of that filepath and sets its last_accessed to the current time; every
\* other row and field is unchanged, and for a filepath that is not stored the
\* whole store is unchanged and no row is created.
C4_RecordClick ==
    [][(last'.op = "record_click" /\ last'.ok) =>
          /\ Len(files') = Len(files)
          /\ nextId' = nextId
          /\ \A i \in 1..Len(files) :
                IF files[i].filepath = last'.path
                THEN files'[i] = [files[i] EXCEPT
                                     !.click_count = files[i].click_count + 1,
                                     !.last_accessed = last'.ret]
                ELSE files'[i] = files[i]]_vars

\* a click on a stored file, beside another stored file
C4_Witness ==
    /\ last.op = "record_click"
    /\ last.ok
    /\ Len(files) = 2
    /\ HasPath(files, last.path)
    /\ RowOf(files, last.path).click_count >= 1
    /\ RowOf(files, last.path).last_accessed = last.ret

\* C5 as claimed: the click_count stored for a filepath never decreases,
\* whatever upserts, clicks and indexing passes happen.
C5_FilepathClicksNeverDecrease ==
    \A p \in Paths : HasPath(files, p) => ClicksOf(files, p) >= everClicks[p]

\* C5, amended: a row starts with click_count 0 and keeps its filepath; as
\* long as the row exists its click_count never decreases, only record_click
\* changes it (by 1), and upserts and full_index leave it alone.  A row is
\* deleted only by the remove_missing_files of incremental_index, for a
\* filepath that is not on disk: a file found again starts at 0.
C5_RowClicksNeverDecrease ==
    [][/\ \A j \in 1..Len(files') :
             IF \E i \in 1..Len(files) : files[i].id = files'[j].id
             THEN \A i \in 1..Len(files) :
                     files[i].id = files'[j].id =>
                        /\ files'[j].filepath = files[i].filepath
                        /\ files'[j].click_count >= files[i].click_count
                        /\ files'[j].click_count # files[i].click_count =>
                              /\ last'.op = "record_click"
                              /\ files'[j].click_count
                                    = files[i].click_count + 1
             ELSE files'[j].click_count = 0
       /\ \A i \in 1..Len(files) :
             (\A j \in 1..Len(files') : files'[j].id # files[i].id) =>
                /\ last'.op = "incremental_index"
                /\ ~Exists(last'.disk, files[i].filepath)]_vars

\* a full_index pass has upserted a file again whose row has clicks
C5_Witness ==
    /\ last.op = "full_index"
    /\ last.ok
    /\ \E k \in 1..Len(last.applied) :
          /\ HasPath(files, last.applied[k].filepath)
          /\ RowOf(files, last.applied[k].filepath).click_count > 0

\* C6 as claimed: when remove_missing_files returns Ok, exactly the rows
\* whose filepath is not on disk are gone, their number is returned, and the
\* other rows are unchanged.
C6_ReconcileRemovesExactlyMissing ==
    [][(last'.op = "remove_missing_files" /\ last'.ok) =>
          /\ files' = SelectSeq(files,
                                LAMBDA r : Exists(last'.disk, r.filepath))
          /\ last'.ret = Len(files) - Len(files')]_vars

----------------------------------------------------------------------------
(* Properties of search_files *)

\* the call that has returned is search_files, and it returned Ok
SearchFilesReturned == srch.op = "search_files" /\ srch.ok

\* filename or filepath contains the query, case-insensitively
IsCandidate(row, q) ==
    \/ Contains(ToLower(row.filename), ToLower(q))
    \/ Contains(ToLower(row.filepath), ToLower(q))

\* C7: search_files treats the query as literal text: the rows it selects
\* are exactly the rows whose filename or filepath contains the query
\* case-insensitively, whatever characters the query holds; it returns at
\* most limit rows and only such rows.
C7_QueryIsLiteralText ==
    SearchFilesReturned =>
        /\ Len(srch.rows) <= srch.limit
        /\ \A i \in 1..Len(srch.rows) : IsCandidate(srch.rows[i], srch.query)
        /\ \A i \in 1..Len(files) :
              where_matches(files[i], srch.query)
                  <=> IsCandidate(files[i], srch.query)

\* the match tiers, decided on the text: exact filename, filename prefix,
\* filename substring, filepath-only substring
Tier(row, q) ==
    LET f == ToLower(row.filename)
        ql == ToLower(q)
    IN IF f = ql THEN 4
       ELSE IF StartsWith(f, ql) THEN 3
       ELSE IF Contains(f, ql) THEN 2
       ELSE IF Contains(ToLower(row.filepath), ql) THEN 1
       ELSE 0

\* the three tiers of the claim: a substring match of filename or filepath
\* is one tier
Tier3(row, q) == IF Tier(row, q) >= 2 THEN Tier(row, q) - 1 ELSE Tier(row, q)

Key3(row, q) ==
    <<Tier3(row, q), type_rank(row.file_type), row.click_count,
      row.last_accessed, row.modified_at>>

\* the order of the statement: the tier its pattern match gives, then
\* type priority, click_count, last_accessed, modified_at
Key4(row, q) ==
    <<match_score(row, q), type_rank(row.file_type), row.click_count,
      row.last_accessed, row.modified_at>>

\* the ids of the rows search_files returned
RowIds == {srch.rows[i].id : i \in 1..Len(srch.rows)}

----------------------------------------------------------------------------
(* Properties of search *)

SearchReturned == srch.op = "search" /\ srch.pc = "done" /\ srch.ok

\* C9: search returns at most max_results results.
C9_CapHonored ==
    SearchReturned => Len(srch.result) <= srch.limit

\* both phases scored results, more than max_results together, and
\* max_results are returned
C9_Witness ==
    /\ SearchReturned
    /\ srch.rows # <<>>
    /\ srch.p2 # <<>>
    /\ srch.found > srch.limit
    /\ Len(srch.result) = srch.limit

\* C10: no id appears twice in the list search returns, and no id scored
\* from the rows of search_files is scored again by the fuzzy scan, also
\* when other threads change the store between the two reads.
C10_NoIdTwice ==
    SearchReturned =>
        /\ \A i, j \in 1..Len(srch.result) :
              srch.result[i].id = srch.result[j].id => i = j
        /\ \A i \in 1..Len(srch.p2) : srch.p2[i] \notin RowIds
        /\ \A i, j \in 1..Len(srch.p2) : srch.p2[i] = srch.p2[j] => i = j

\* the store changed between the two reads, the fuzzy scan scored a row,
\* and it passed over a row of the first phase that it would have matched
C10_Witness ==
    /\ SearchReturned
    /\ srch.ops > 0
    /\ srch.p2 # <<>>
    /\ \E i \in 1..Len(files) :
          /\ files[i].id \in RowIds
          /\ IsSubsequence(ToLower(srch.query), ToLower(files[i].filename))
    /\ Len(srch.result) >= 2

----------------------------------------------------------------------------
(* Properties of score_entry *)

ScoreEntryReturned == pure.op = "score_entry"

\* the two rows have the same file_type, click_count and last_accessed
SameBoostInputs ==
    /\ pure.entries[1].file_type = pure.entries[2].file_type
    /\ pure.entries[1].click_count = pure.entries[2].click_count
    /\ pure.entries[1].last_accessed = pure.entries[2].last_accessed

NameOf(i) == ToLower(pure.entries[i].filename)

\* C11: score_entry tries exact filename (1000), filename without extension
\* (950), filename prefix (800), filename substring (600), filepath
\* substring (300) in this order and takes the first that applies: a
\* filename equal to the query is exact with 1000 and nothing else is, and
\* where the 950 rule did not apply a prefix gives 800, else a filename
\* substring 600, else a filepath substring 300.  For two rows with the same
\* file_type, click_count and last_accessed, the row whose filename equals
\* the query is exact and scores strictly higher than a row whose filename
\* only starts with or contains the query.
C11_ExactFirst ==
    ScoreEntryReturned =>
        LET q == ToLower(pure.query) IN
        /\ \A i \in 1..2 :
              LET b == pure.best[i]
                  path == ToLower(pure.entries[i].filepath)
              IN /\ NameOf(i) = q =>
                       b.score = 1000 * Milli /\ b.match_type = "exact"
                 /\ b.score = 1000 * Milli => NameOf(i) = q
                 /\ (NameOf(i) # q /\ b.score # 950 * Milli) =>
                       IF StartsWith(NameOf(i), q)
                       THEN b.score = 800 * Milli /\ b.match_type = "prefix"
                       ELSE IF Contains(NameOf(i), q)
                       THEN b.score = 600 * Milli
                              /\ b.match_type = "substring"
                       ELSE Contains(path, q) =>
                              b.score = 300 * Milli /\ b.match_type = "path"
        /\ \A i, j \in 1..2 :
              (SameBoostInputs /\ NameOf(i) = q /\ NameOf(j) # q
                 /\ Contains(NameOf(j), q))
              => /\ pure.out[i].match_type = "exact"
                 /\ pure.out[i].score > pure.out[j].score

\* a row named as the query and a row with the same boost inputs whose
\* name starts with the query and gets 950, scored at different hours
C11_Witness ==
    /\ ScoreEntryReturned
    /\ SameBoostInputs
    /\ NameOf(1) = ToLower(pure.query)
    /\ NameOf(2) # ToLower(pure.query)
    /\ StartsWith(NameOf(2), ToLower(pure.query))
    /\ pure.best[2].score = 950 * Milli
    /\ pure.entries[1].last_accessed > 0
    /\ pure.out[1].score - pure.best[1].score
         < pure.out[2].score - pure.best[2].score

\* the filename without its extension: the part before the last dot, the
\* whole name when it has no dot or only a leading one
Stem(name) ==
    LET dots == {i \in 2..Len(name) : name[i] = "."}
    IN IF dots = {} THEN name
       ELSE SubSeq(name, 1, (CHOOSE i \in dots : \A j \in dots : i >= j) - 1)

\* C12: a row whose filename differs from the query and whose filename
\* without its extension equals the query case-insensitively, also when the
\* filename has more than one dot, gets base score 950 with the first
\* len(query) positions as matched indices; no other row gets base 950.
C12_StemGets950 ==
    ScoreEntryReturned =>
        \A i \in 1..2 :
            LET q == ToLower(pure.query) IN
            /\ (NameOf(i) # q /\ Stem(NameOf(i)) = q)
                  <=> pure.best[i].score = 950 * Milli
            /\ pure.best[i].score = 950 * Milli =>
                  pure.best[i].indices = [k \in 1..Len(q) |-> k - 1]

----------------------------------------------------------------------------
(* Properties of search: matched indices, blank queries *)

\* C13: in every result of search, every matched index is an offset into
\* the result's filename, and a result of match type "path" has no matched
\* indices.
C13_IndicesIntoFilename ==
    SearchReturned =>
        \A i \in 1..Len(srch.result) :
            LET r == srch.result[i] IN
            /\ \A k \in 1..Len(r.matched_indices) :
                  r.matched_indices[k] \in 0..(Len(r.filename) - 1)
            /\ r.match_type = "path" => r.matched_indices = <<>>

\* C14: search with a query of nothing but white space returns Ok with an
\* empty list and has read nothing from the store, whatever the store
\* would have answered.
C14_BlankQueryEmpty ==
    (srch.op = "search" /\ srch.pc = "done"
        /\ \A i \in 1..Len(srch.query) : srch.query[i] \in WhiteSpace)
    => /\ srch.ok
       /\ srch.result = <<>>
       /\ srch.reads = 0
       /\ srch.rows = <<>>

\* a blank query of white space was answered on a store that has rows
C14_Witness ==
    /\ srch.op = "search" /\ srch.pc = "done"
    /\ srch.query = <<" ", "\t">>
    /\ srch.ok /\ srch.result = <<>> /\ srch.reads = 0
    /\ Len(files) >= 2

----------------------------------------------------------------------------
(* Properties of classify_file *)

ClassifyReturned == pure.op = "classify_file"

\* the rules of the classifier in their order: what must hold of the
\* lower-cased extension, the directory flag and the lower-cased path
RuleHolds(n, ext, is_dir, path) ==
    CASE n = 1 -> ext \in AppExtensions
      [] n = 2 -> ext \in ShortcutExtensions
      [] n = 3 -> is_dir
      [] n = 4 -> ext \in DocumentExtensions
      [] n = 5 -> ext \in ImageExtensions
      [] n = 6 -> ext \in CodeExtensions
      [] n = 7 -> \E i \in 1..Len(path) :
                     /\ i + Len(StartMenu) - 1 <= Len(path)
                     /\ SubSeq(path, i, i + Len(StartMenu) - 1) = StartMenu
      [] n = 8 -> TRUE

RuleType ==
    <<"app", "shortcut", "folder", "document", "image", "code", "app", "other">>

\* C15: the classifier returns the type of the first rule that matches, in
\* the order app extension, shortcut extension, directory, document, image,
\* code extension, Start Menu path, other; a directory with an app extension
\* is an app and a directory under a Start Menu path is a folder.
C15_FirstRuleWins ==
    ClassifyReturned =>
        LET ext == ToLower(pure.extension)
            path == ToLower(pure.filepath)
            first == CHOOSE n \in 1..8 :
                        /\ RuleHolds(n, ext, pure.is_dir, path)
                        /\ \A k \in 1..(n - 1) :
                              ~RuleHolds(k, ext, pure.is_dir, path)
        IN /\ pure.out = RuleType[first]
           /\ (pure.is_dir /\ ext \in AppExtensions) => pure.out = "app"
           /\ (pure.is_dir /\ RuleHolds(7, ext, FALSE, path)
                 /\ ext \notin AppExtensions \cup ShortcutExtensions)
                 => pure.out = "folder"

\* a directory with an upper-case app extension under a Start Menu path
C15_Witness ==
    /\ ClassifyReturned
    /\ pure.is_dir
    /\ pure.extension = <<"E", "X", "E">>
    /\ RuleHolds(7, <<>>, FALSE, ToLower(pure.filepath))
    /\ pure.out = "app"

----------------------------------------------------------------------------
(* Properties of the indexer *)

\* the suffix of a filename: what follows its last dot, nothing when the
\* filename has no suffix
Suffix(name) ==
    IF Stem(name) = name THEN <<>>
    ELSE SubSeq(name, Len(Stem(name)) + 2, Len(name))

\* C16: every entry a full_index pass wrote has as extension the
\* lower-cased suffix of its filename (empty when there is none), and no
\* row of the store has an extension with an upper-case letter.
C16_ExtensionLowerCased ==
    /\ last.op = "full_index" =>
          \A i \in 1..Len(last.applied) :
              last.applied[i].extension
                  = ToLower(Suffix(last.applied[i].filename))
    /\ \A i \in 1..Len(files) : \A k \in 1..Len(files[i].extension) :
          files[i].extension[k] \notin DOMAIN LowerCase

\* C17: the count full_index returns is the number of entries of the walk
\* that the call wrote to the store, whether its flush succeeded or failed.
C17_CountIsUpserted ==
    last.op = "full_index" => last.ret = Len(last.applied)

PathsOf(fs) == {fs[i].filepath : i \in 1..Len(fs)}

\* C18: incremental_index finishes remove_missing_files before any entry
\* of its walk is upserted, then walks the whole disk, then records the
\* last_incremental_index timestamp, and returns (indexed, removed); when
\* remove_missing_files fails it returns the error with no walk and no
\* timestamp written.
C18_IncrementalSequence ==
    idx.kind = "incremental" =>
        /\ idx.pc = "walk" =>
              /\ PathsOf(files) \subseteq PathsOf(idx.before)
              /\ idx.meta = idx.meta0
        /\ idx.pc \in {"set_meta_full", "set_meta_incremental"} =>
              /\ Range(idx.walked) = idx.disk
              /\ idx.meta["last_incremental_index"]
                    = idx.meta0["last_incremental_index"]
        /\ (idx.pc = "done" /\ last.ok) =>
              /\ idx.steps = <<"remove_missing_files", "walk",
                               "set_meta", "set_meta">>
              /\ idx.meta["last_incremental_index"] = idx.now
              /\ last.ret = <<idx.indexed, idx.removed>>
        /\ (idx.pc = "done" /\ ~last.ok) =>
              /\ last.op = "incremental_index"
              /\ idx.steps = <<"remove_missing_files">>
              /\ idx.walked = <<>>
              /\ PathsOf(files) \subseteq PathsOf(idx.before)
              /\ idx.meta = idx.meta0

----------------------------------------------------------------------------
(* Properties of the host *)

\* the tasks whose indexing pass is executing
Passes == {h \in HostPaths : host.pc[h] = "pass"}

\* C19: at most one indexing pass is executing at any time, whichever of
\* the four host paths started it.
C19_OnePassAtATime == Cardinality(Passes) <= 1

\* C20: a rebuild_index call that arrives while the flag is set returns
\* the error "Indexing is already in progress", starts no pass, writes
\* nothing to the store and leaves the flag set.
C20_RefusedWhileIndexing ==
    [][(host'.calls = host.calls + 1 /\ host.indexing) =>
          /\ last'.op = "rebuild_index"
          /\ ~last'.ok
          /\ last'.ret = "Indexing is already in progress"
          /\ host'.indexing
          /\ host'.pc = host.pc
          /\ files' = files /\ nextId' = nextId]_vars

\* a second rebuild_index call was refused while the pass of the first,
\* which has written to the store, is still running
C20_Witness ==
    /\ last.op = "rebuild_index" /\ ~last.ok
    /\ last.ret = "Indexing is already in progress"
    /\ host.calls = 2
    /\ host.indexing
    /\ Passes = {"rebuild"}
    /\ files # <<>>

----------------------------------------------------------------------------
(* Properties of rebuild_index and of the storage calls *)

\* C21: an accepted rebuild_index call returns the indexed count when the
\* pass succeeded and an error when the batch upsert or the timestamp
\* write of the pass failed; it returns no success count for a pass in
\* which a storage write failed.
C21_ErrorWhenWriteFailed ==
    last.op = "rebuild_index" =>
        LET written == /\ idx.flushed
                       /\ idx.meta["last_full_index"] = idx.now
        IN /\ last.ok <=> written
           /\ last.ok => last.ret = Len(idx.walked)

\* the rows of the store that the statement of search_files selects
Selected(fs, q) == {i \in 1..Len(fs) : where_matches(fs[i], q)}

\* C22: a storage call that returns success has dropped no row and no
\* step: a successful search_files returns every selected row, up to the
\* limit, also when reading a row failed.
C22_SuccessDropsNoRow ==
    (SearchFilesReturned /\ srch.ok) =>
        Len(srch.rows) = Min(srch.limit, Cardinality(Selected(files, srch.query)))

----------------------------------------------------------------------------
(* Properties of the scores *)

\* C23: of two entries scored for the same query at the same time that
\* differ in click_count only, the one with more clicks scores at least as
\* much, in the scoring of the SQL rows and in that of the fuzzy scan.
C23_MoreClicksNotLess ==
    pure.op = "score_clicks" =>
        /\ pure.phase1[1] <= pure.phase1[2]
        /\ pure.phase2[1] <= pure.phase2[2]

\* a row launched once and the same row launched three times, scored an
\* hour after the last launch: the second scores strictly more
C23_Witness ==
    /\ pure.op = "score_clicks"
    /\ pure.entries[1].click_count = 1
    /\ pure.entries[2].click_count = 3
    /\ pure.entries[1].last_accessed = 1
    /\ pure.phase1[1] < pure.phase1[2]
    /\ pure.phase2[1] < pure.phase2[2]

----------------------------------------------------------------------------
(* Properties of the two phases of search *)

\* C30: search takes at most 3 * max_results rows from search_files; it
\* reads the whole table for the fuzzy scan exactly when the first phase
\* gave fewer than max_results results; otherwise the fuzzy scan adds
\* nothing and every result is one of the rows of search_files.
C30_SecondReadOnlyWhenShort ==
    (srch.op = "search" /\ srch.reads > 0) =>
        /\ Len(srch.rows) <= 3 * srch.limit
        /\ srch.pc = "phase2" => Len(srch.rows) < srch.limit
        /\ srch.reads = 2 => Len(srch.rows) < srch.limit
        /\ (srch.pc = "done" /\ srch.ok) =>
              /\ srch.reads = 2 <=> Len(srch.rows) < srch.limit
              /\ srch.reads = 1 =>
                    /\ srch.p2 = <<>>
                    /\ \A i \in 1..Len(srch.result) :
                          srch.result[i].id \in RowIds

\* a search that ended after its first phase: search_files gave all the
\* 3 * max_results rows asked for, and the store holds more
C30_Witness ==
    /\ SearchReturned
    /\ srch.reads = 1
    /\ Len(srch.rows) = 3 * srch.limit
    /\ Len(files) > Len(srch.rows)
    /\ Len(srch.result) = srch.limit

\* C24: evaluate_math has no result for an expression in which a division or
\* a modulo has a right operand of value zero, at the top level, inside
\* parentheses or under a unary minus.
C24_ZeroDivisorNoResult ==
    (pure.op = "evaluate_math" /\ ZeroDivisor(pure.expr)) => ~pure.out.ok

\* 2 + -(3 % 0) was evaluated and has no result
C24_Witness ==
    /\ pure.op = "evaluate_math"
    /\ pure.expr = Bin("+", Lit(<<"2">>),
                       NegOf(Par(Bin("%", Lit(<<"3">>), Lit(<<"0">>)))))
    /\ ~pure.out.ok

\* the number a result text spells
TextValue(text) ==
    IF starts_with(text, "-")
    THEN FNeg(parse_f64(Tail(text)).val)
    ELSE parse_f64(text).val

\* two numbers that agree to six decimals
SameToSixDecimals(a, b) ==
    LET diff == FSub(a, b) IN Abs(diff.n) <= diff.d \div 2000000

\* C25: for a well-formed expression over + - * / % ^, unary minus and
\* parentheses without a zero divisor, evaluate_math returns the value of
\* the expression under the usual precedence, written as a number.
C25_WellFormedHasValue ==
    (pure.op = "evaluate_math" /\ Value(pure.expr).ok) =>
        /\ pure.out.ok
        /\ SameToSixDecimals(TextValue(pure.out.text), Value(pure.expr).val)

----------------------------------------------------------------------------
(* Properties of the walk of full_index *)

\* the entries passed to upsert_files_batch so far, chunk after chunk
RECURSIVE ChunkEntries(_)
ChunkEntries(chunks) ==
    IF chunks = <<>> THEN <<>>
    ELSE ChunkEntries(SubSeq(chunks, 1, Len(chunks) - 1))
         \o chunks[Len(chunks)].entries

Submitted == ChunkEntries(idx.chunks)

\* a name that starts with a dot, or is a skip-list name in any case
HiddenOrSkipName(name) ==
    \/ name # <<>> /\ name[1] = "."
    \/ \E skip \in SKIP_DIRS : ToLower(name) = skip

\* node i of root r, or a directory between the root and i, is a directory
\* with such a name
BelowPrunedName(r, i) ==
    LET nodes == WalkRoots[r].nodes IN
    \E k \in Range(PathTo(nodes, i)) :
        nodes[k].is_dir /\ HiddenOrSkipName(nodes[k].name)

\* the walk could not read node i of root r, or a directory above it
Unread(r, i) ==
    LET up == PathTo(WalkRoots[r].nodes, i) IN
    \/ <<r, i>> \in idx.skipped
    \/ \E k \in 1..(Len(up) - 1) : <<r, up[k]>> \in idx.closed

\* the nodes a complete walk finds: within the depth bound, not pruned and
\* readable
Discovered(r, i) ==
    /\ DepthOf(WalkRoots[r].nodes, i) <= MAX_DEPTH
    /\ ~BelowPrunedName(r, i)
    /\ ~Unread(r, i)

\* their entries, root after root, in the order of the walk
RECURSIVE DiscoveredEntries(_)
DiscoveredEntries(r) ==
    IF r = 0 THEN <<>>
    ELSE LET n == Len(WalkRoots[r].nodes)
             found == SelectSeq([i \in 1..n |-> i],
                                LAMBDA i : Discovered(r, i))
         IN DiscoveredEntries(r - 1)
            \o [k \in 1..Len(found) |-> node_entry(WalkRoots[r], found[k])]

WalkReturned == idx.pc = "done" /\ last.op = "full_index"

\* C26: the batch never holds more than 500 entries; a batch of 500 is
\* flushed before the next entry is pushed; every chunk but the last holds
\* exactly 500 entries and the remainder is flushed once, after the last
\* root; when full_index returns, the chunks are, in order and once each,
\* the entries the walk discovered, and nothing is left in the batch.
C26_ChunksOf500 ==
    /\ Len(idx.batch) <= 500
    /\ idx.pc = "walk" => Len(idx.batch) < 500
    /\ idx.pc = "flush" => Len(idx.batch) = 500
    /\ \A k \in 1..Len(idx.chunks) :
        IF idx.chunks[k].final
        THEN /\ k = Len(idx.chunks)
             /\ idx.pc \in {"set_meta", "done"}
             /\ Len(idx.chunks[k].entries) \in 1..499
        ELSE Len(idx.chunks[k].entries) = 500
    /\ idx.pc \in {"set_meta", "done"} =>
          Submitted = DiscoveredEntries(Len(WalkRoots))
    /\ idx.pc = "done" => idx.batch = <<>>

\* 1001 entries in two roots went out as chunks of 500, 500 and 1
C26_Witness ==
    /\ WalkReturned
    /\ Len(idx.chunks) = 3
    /\ Len(idx.chunks[2].entries) = 500
    /\ idx.chunks[3].final
    /\ Len(idx.chunks[3].entries) = 1

\* every entry of the chunk is a row of the store, with its values
Committed(chunk) ==
    \A k \in 1..Len(chunk.entries) :
        /\ HasPath(files, chunk.entries[k].filepath)
        /\ RowOf(files, chunk.entries[k].filepath).filename
               = chunk.entries[k].filename

NodePath(r, i) == DirOf(WalkRoots[r], i) \o WalkRoots[r].nodes[i].name

\* the paths passed to upsert_files_batch
SubmittedPaths == {Submitted[k].filepath : k \in 1..Len(Submitted)}

\* node i of root r was passed to upsert_files_batch
IsSubmitted(r, i) == NodePath(r, i) \in SubmittedPaths

\* a directory above the root r has such a name
RootBelowPrunedName(r) ==
    \E k \in 1..Len(WalkRoots[r].above) :
        HiddenOrSkipName(WalkRoots[r].above[k])

\* a file with a hidden or skip-list name that the walk comes to
FileKept(r, i) ==
    /\ ~WalkRoots[r].nodes[i].is_dir
    /\ HiddenOrSkipName(WalkRoots[r].nodes[i].name)
    /\ Discovered(r, i)

RECURSIVE NodesFrom(_)
NodesFrom(r) ==
    IF r > Len(WalkRoots) THEN 0
    ELSE 2 * Len(WalkRoots[r].nodes) + 1 + NodesFrom(r + 1)

Remaining ==
    IF idx.pc = "done" THEN 0
    ELSE IF idx.pc = "set_meta" THEN 1
    ELSE NodesFrom(idx.root) - 2 * idx.pos + 2
         + (IF idx.pc = "flush" THEN 1 ELSE 0)
         + (IF idx.pc = "idle" THEN 1 ELSE 0)

\* C29: full_index ends after a number of steps that the size of the tree
\* bounds, whatever fails; and when it has ended it has returned success,
\* it went past each entry that failed, and every other entry that is
\* within the depth bound, not pruned and not below a directory that could
\* not be read was passed to upsert_files_batch.
C29_ErrorsAreSkipped ==
    /\ idx.turns + Remaining <= NodesFrom(1) + 3
    /\ idx.pc = "done" =>
          LET paths == SubmittedPaths IN
          /\ last.op = "full_index"
          /\ last.ok
          /\ Submitted = DiscoveredEntries(Len(WalkRoots))
          /\ \A r \in 1..Len(WalkRoots) :
             \A i \in 1..Len(WalkRoots[r].nodes) :
                 (<<r, i>> \in idx.skipped) => NodePath(r, i) \notin paths

\* the directory e could not be read and the stat of g failed: h, after
\* them, is in the store
C29_Witness ==
    /\ WalkReturned
    /\ WalkRoots = <<FaultyRoot>>
    /\ idx.closed = {<<1, 2>>}
    /\ idx.skipped = {<<1, 2>>, <<1, 4>>}
    /\ HasPath(files, node_entry(FaultyRoot, 5).filepath)
    /\ Len(files) = 2

----------------------------------------------------------------------------
(* Properties of the list search returns *)

\* the ids of the results search returned
ResultIds == {srch.result[i].id : i \in 1..Len(srch.result)}

\* C31: the list search returns is in non-increasing order of score and
\* holds the max_results best of the candidates scored by the two phases
\* of the call: it is as long as the cap allows, each result is one of the
\* scored candidates, and no scored candidate that was left out has a
\* strictly higher score than a returned one.
C31_BestScoresReturned ==
    SearchReturned =>
        /\ \A i, j \in 1..Len(srch.result) :
              i < j => srch.result[i].score >= srch.result[j].score
        /\ Len(srch.result) = Min(srch.limit, Len(srch.scored))
        /\ \A i \in 1..Len(srch.result) :
              \E k \in 1..Len(srch.scored) : srch.scored[k] = srch.result[i]
        /\ \A k \in 1..Len(srch.scored) :
              srch.scored[k].id \notin ResultIds =>
                  \A i \in 1..Len(srch.result) :
                      srch.scored[k].score <= srch.result[i].score

\* both phases scored candidates, in an order that is not the order of the
\* scores, more of them than max_results, and a candidate was left out for
\* a candidate with a higher score that was scored after it
C31_Witness ==
    /\ SearchReturned
    /\ srch.rows # <<>>
    /\ srch.p2 # <<>>
    /\ Len(srch.scored) > srch.limit
    /\ \E i, j \in 1..Len(srch.scored) :
          i < j /\ srch.scored[i].score < srch.scored[j].score
    /\ \E k, m \in 1..Len(srch.scored) :
          /\ k < m
          /\ srch.scored[k].id \notin ResultIds
          /\ srch.scored[m].id \in ResultIds
          /\ srch.scored[k].score < srch.scored[m].score

----------------------------------------------------------------------------
(* Properties of the connection behind its mutex *)

\* the rows hold what entry e of a batch wrote
Observed(rows, e) ==
    \E i \in 1..Len(rows) :
        /\ rows[i].filepath = e.filepath
        /\ rows[i].filename = e.filename
        /\ rows[i].file_size = e.file_size
        /\ rows[i].modified_at = e.modified_at
        /\ rows[i].file_type = e.file_type

\* the rows hold every entry of the batch, or none
AllOrNone(rows, batch) ==
    \/ \A k \in 1..Len(batch) : Observed(rows, batch[k])
    \/ \A k \in 1..Len(batch) : ~Observed(rows, batch[k])

\* result r is built from a row of rows
BuiltFrom(r, rows) ==
    \E i \in 1..Len(rows) :
        /\ rows[i].id = r.id
        /\ rows[i].filename = r.filename
        /\ rows[i].filepath = r.filepath
        /\ rows[i].file_type = r.file_type
        /\ rows[i].click_count = r.click_count
        /\ rows[i].last_accessed = r.last_accessed
        /\ rows[i].modified_at = r.modified_at

\* C32: when a search, clicks and an indexing pass interleave, at most one
\* thread is inside the store at a time and a transaction is open only
\* while the indexing thread is inside; each of the two reads of the
\* search sees, of every batch of the pass, all entries or none; and each
\* result is built from a row that was in the store at the read that
\* produced it.
C32_OneAtATime ==
    /\ Cardinality(conn.holders) <= 1
    /\ conn.tx => conn.holders = {"index"}
    /\ srch.reads >= 1 =>
          \A b \in 1..Len(ConnBatches) : AllOrNone(srch.saw1, ConnBatches[b])
    /\ srch.reads = 2 =>
          \A b \in 1..Len(ConnBatches) : AllOrNone(srch.saw2, ConnBatches[b])
    /\ SearchReturned =>
          \A i \in 1..Len(srch.result) :
              IF srch.result[i].id \in RowIds
              THEN BuiltFrom(srch.result[i], srch.saw1)
              ELSE BuiltFrom(srch.result[i], srch.saw2)

\* a search made both reads; the first batch of the pass was committed
\* between them and a click was recorded; a result is a row of that batch;
\* and the search returned while the transaction of the second batch was
\* open with one of its two statements executed
C32_Witness ==
    /\ SearchReturned
    /\ srch.reads = 2
    /\ \A k \in 1..2 : ~Observed(srch.saw1, ConnBatches[1][k])
    /\ \A k \in 1..2 : Observed(srch.saw2, ConnBatches[1][k])
    /\ \E i \in 1..Len(srch.saw2) :
          srch.saw2[i].filepath = ConnClicked /\ srch.saw2[i].click_count = 1
    /\ \E i \in 1..Len(srch.result) :
          srch.result[i].filepath = ConnBatches[1][2].filepath
    /\ idx.pc = "tx" /\ idx.b = 2 /\ idx.pos = 1
    /\ conn.holders = {"index"}

----------------------------------------------------------------------------
(* Properties of the launcher commands *)

\* the usage statistics of the rows: click_count and last_accessed per id
Usage(rows) ==
    {<<rows[i].id, rows[i].click_count, rows[i].last_accessed>> :
        i \in 1..Len(rows)}

\* C33: launch_file adds exactly one to the click_count of the row of
\* filepath when the file is launched (and record_click succeeded), and
\* leaves the usage statistics unchanged when the file is not launched; the
\* file is launched whenever it exists and can be started, also after a
\* failure of record_click; open_containing_folder never changes the usage
\* statistics.
C33_ClickOnlyWhenLaunched ==
    /\ last.op = "launch_file" =>
          /\ (last.launched /\ last.recorded) =>
                ClicksOf(files, last.path) = ClicksOf(last.before, last.path)
                    + (IF HasPath(files, last.path) THEN 1 ELSE 0)
          /\ ~last.launched => Usage(files) = Usage(last.before)
          /\ last.launched <=> (last.found /\ last.spawned)
    /\ last.op = "open_containing_folder" =>
          Usage(files) = Usage(last.before)

----------------------------------------------------------------------------
(* Properties of the results of search as projections of rows *)

\* result r has the eight stored values of the row
ProjectionOf(r, row) ==
    /\ r.id = row.id
    /\ r.filename = row.filename
    /\ r.filepath = row.filepath
    /\ r.extension = row.extension
    /\ r.file_size = row.file_size
    /\ r.modified_at = row.modified_at
    /\ r.file_type = row.file_type
    /\ r.click_count = row.click_count
    /\ r.last_accessed = row.last_accessed

\* C34: every result search returns, from the rows of search_files or from
\* the fuzzy scan, has the filename, filepath, extension, file_size,
\* modified_at, file_type, click_count and last_accessed of the row with
\* its id, as that row was when the call read it (the rows of search_files
\* for the first phase, the table at get_all_filenames for the second).
C34_ResultIsProjection ==
    SearchReturned =>
        \A i \in 1..Len(srch.result) :
            IF srch.result[i].id \in RowIds
            THEN \E k \in 1..Len(srch.rows) :
                    ProjectionOf(srch.result[i], srch.rows[k])
            ELSE \E k \in 1..Len(files) :
                    ProjectionOf(srch.result[i], files[k])

----------------------------------------------------------------------------
(* Properties of the indexing flag when a pass has ended *)

\* the tasks that hold the flag: their pass is executing, or it has ended
\* and the task has not yet run the statements after its await
InFlight == {h \in HostPaths : host.pc[h] \in {"pass", "joined"}}

\* C35: after a pass started by any host path has ended, with a count,
\* with an error or with a failed blocking task, the flag is cleared: the
\* flag is never set while no task has a pass in flight, so that a later
\* rebuild_index, tray action or background turn is accepted.
C35_FlagClearedAfterPass == host.indexing => InFlight # {}

====
